---- MODULE Spec2Model ----
(***************************************************************************)
(* State-machine model of the example scripts of the scikit-learn          *)
(* documentation corpus:                                                   *)
(*   - plot_feature_stacker  (src/unnamed/part_000)                        *)
(*   - plot_compare_reduction (src/0.19/.../plot_compare_reduction.rst.txt)*)
(*   - plot_missing_values / get_results (src/unnamed/part_001)            *)
(*   - plot_gpc_isoprobability (src/0.18/_downloads/...ipynb)              *)
(* A script is a straight-line sequence of statements executed by one      *)
(* interpreter thread.  The library calls the scripts make (ParameterGrid, *)
(* GridSearchCV.fit, joblib Memory, rmtree, ...) are modelled by what the  *)
(* scripts and their captured console output show them to do.              *)
(***************************************************************************)
EXTENDS Integers, Sequences, FiniteSets, TLC

VARIABLES
    script,          \* name of the example script being run
    pc,              \* index (1-based) of the statement to execute next
    status,          \* "running", "done" or "raised"
    trace,           \* statement attempts so far: <<statement index, outcome>>
    toplevel_error,  \* exception that reached the top level ("none" if none)
    loop_i,          \* iterations done of the for loop at pc
    iterated,        \* the for loops that ended: statement and iterations
    boost,           \* [cand, gain]: the candidate that scores gain above the base
    gs_phase,        \* "idle", "fitting" (inside GridSearchCV.fit) or "fitted"
    gs_done,         \* number of (candidate, fold) fits completed in this fit
    inflight,        \* (candidate, fold) fits started and not yet completed
    cvlog,           \* the verbose "[CV] ..." lines printed so far
    fold_scores,     \* test score of every completed fit, in completion order
    announced,       \* "Fitting f folds for each of c candidates, totalling n fits"
    mean_test_score, \* cv_results_['mean_test_score'] of the last completed fit
    best_index_,     \* GridSearchCV.best_index_ (0 before a fit completed)
    printed,         \* what print(grid_search.best_estimator_) wrote
    grid_memory,     \* does the pipeline wrapped by the grid search have a memory
    cachedir,        \* "none", "exists" (after mkdtemp) or "deleted" (after rmtree)
    cache,           \* keys stored under cachedir by joblib Memory
    memlog,          \* the [Memory] events so far: executed calls and cache loads
    rmtree_at,       \* Len(memlog) when rmtree(cachedir) ran (-1 before)
    mean_scores,     \* the variable mean_scores of plot_compare_reduction
    gpc_pc,          \* plot_gpc_isoprobability: the statement to execute next
    y,               \* labels of the design points (<<>> before they are computed)
    gp,              \* the fitted GaussianProcessClassifier (<<>> before the fit)
    y_true,          \* g at every grid point
    y_prob,          \* gp.predict_proba(xx)[:, 1] at every grid point
    image,           \* what imshow shows at every grid point
    cb_label,        \* the event the colorbar label names ("" before it is set)
    red,             \* design points drawn with 'r.'
    blue,            \* design points drawn with 'b.'
    gr_pc,           \* plot_missing_values: the step of get_results to run next
    gr_call,         \* number of the get_results call in progress (1 or 2)
    rng,             \* state of the module-level np.random.RandomState
    heap,            \* the arrays that exist: identity -> contents
    X_full,          \* identity of the array X_full names
    y_full,          \* identity of the array y_full names
    X_missing,       \* identity of the array X_missing names (0 if none)
    y_missing,       \* identity of the array y_missing names (0 if none)
    missing_samples, \* the boolean row mask
    missing_features,\* the feature index drawn for every marked row
    written,         \* the cells the last indexed assignment wrote
    cv_calls,        \* the cross_val_score calls so far: estimator and data
    results,         \* what every get_results call returned
    axes,            \* the two bar charts of plot_missing_values
    rng_at_entry,    \* the state of rng at the start of every get_results call
    residual,        \* how far the forests of this run predict from the target
    op_pc,           \* the next statement of plot_optics
    clust,           \* the fitted OPTICS: labels_, ordering_, reachability_
    space,           \* np.arange(len(X))
    reachability,    \* clust.reachability_[clust.ordering_]
    labels,          \* clust.labels_[clust.ordering_]
    op_k,            \* how many elements the running plot loop has taken
    ax1,             \* the plot calls on the reachability panel
    ax2              \* the plot calls on the OPTICS panel

scriptvars == <<script, pc, status, trace, toplevel_error, loop_i, iterated>>

gsvars == <<boost, gs_phase, gs_done, inflight, cvlog, fold_scores,
            announced, mean_test_score, best_index_, printed, grid_memory>>

cachevars == <<cachedir, cache, memlog, rmtree_at>>

gpcvars == <<gpc_pc, y, gp, y_true, y_prob, image, cb_label, red, blue>>

grvars == <<gr_pc, gr_call, rng, heap, X_full, y_full, X_missing, y_missing,
            missing_samples, missing_features, written, cv_calls, results, axes,
            rng_at_entry, residual>>

opvars == <<op_pc, clust, space, reachability, labels, op_k, ax1, ax2>>

\* the variables of the examples that are not grid-search scripts
nonscript == <<gpcvars, grvars, opvars>>

vars == <<scriptvars, gsvars, cachevars, mean_scores, nonscript>>

(***************************************************************************)
(* Bounds of the model.                                                    *)
(***************************************************************************)
\* a candidate classifies at most this many more test samples of a fold
\* correctly than in the base run
MaxGain == 2

(***************************************************************************)
(* Generic helpers.                                                        *)
(***************************************************************************)
Range(s) == {s[i] : i \in DOMAIN s}

RECURSIVE SumSeq(_)
SumSeq(s) == IF s = <<>> THEN 0 ELSE Head(s) + SumSeq(Tail(s))

\* s[a..b] of a sequence (empty when a > b)
Slice(s, a, b) == [i \in 1..(b - a + 1) |-> s[a + i - 1]]

(***************************************************************************)
(* Parameter names as code-point sequences: Python's sorted() on dict      *)
(* items orders the names by comparing code points left to right.          *)
(***************************************************************************)
NameCodes(name) ==
    CASE name = "features__pca__n_components" ->
           <<102,101,97,116,117,114,101,115,95,95,112,99,97,95,95,110,95,99,
             111,109,112,111,110,101,110,116,115>>
      [] name = "features__univ_select__k" ->
           <<102,101,97,116,117,114,101,115,95,95,117,110,105,118,95,115,101,
             108,101,99,116,95,95,107>>
      [] name = "svm__C" -> <<115,118,109,95,95,67>>
      [] name = "reduce_dim" -> <<114,101,100,117,99,101,95,100,105,109>>
      [] name = "reduce_dim__n_components" ->
           <<114,101,100,117,99,101,95,100,105,109,95,95,110,95,99,111,109,
             112,111,110,101,110,116,115>>
      [] name = "reduce_dim__k" ->
           <<114,101,100,117,99,101,95,100,105,109,95,95,107>>
      [] name = "classify__C" -> <<99,108,97,115,115,105,102,121,95,95,67>>

RECURSIVE CodesLess(_, _)
CodesLess(a, b) ==
    IF b = <<>> THEN FALSE
    ELSE IF a = <<>> THEN TRUE
    ELSE IF Head(a) # Head(b) THEN Head(a) < Head(b)
    ELSE CodesLess(Tail(a), Tail(b))

\* str.__lt__ on two parameter names
NameLess(m, n) == CodesLess(NameCodes(m), NameCodes(n))

(***************************************************************************)
(* sklearn.model_selection.ParameterGrid, as the scripts use it.  A dict   *)
(* is a sequence of <<name, options>> items in the order of the literal; a *)
(* param_grid is a sequence of such dicts (a single dict is wrapped).      *)
(***************************************************************************)
RECURSIVE InsertItem(_, _)
InsertItem(item, sorted) ==
    IF sorted = <<>> THEN <<item>>
    ELSE IF NameLess(item[1], Head(sorted)[1]) THEN <<item>> \o sorted
    ELSE <<Head(sorted)>> \o InsertItem(item, Tail(sorted))

\* sorted(p.items()): the items ordered by parameter name
RECURSIVE SortedItems(_)
SortedItems(p) ==
    IF p = <<>> THEN <<>> ELSE InsertItem(Head(p), SortedItems(Tail(p)))

RECURSIVE Flatten(_)
Flatten(ss) == IF ss = <<>> THEN <<>> ELSE Head(ss) \o Flatten(Tail(ss))

\* a faulty variant: a product whose first list varies fastest
RECURSIVE ProductFirstFastest(_)
ProductFirstFastest(lists) ==
    IF lists = <<>> THEN << <<>> >>
    ELSE LET rest == ProductFirstFastest(Tail(lists))
             first == Head(lists)
         IN  Flatten([j \in 1..Len(rest) |->
                        [i \in 1..Len(first) |-> <<first[i]>> \o rest[j]]])

\* itertools.product(*lists): the last list varies fastest
RECURSIVE Product(_)
Product(lists) ==
    IF lists = <<>> THEN << <<>> >>
    ELSE LET rest == Product(Tail(lists))
             first == Head(lists)
         IN  Flatten([i \in 1..Len(first) |->
                        [j \in 1..Len(rest) |-> <<first[i]>> \o rest[j]]])

\* the candidates of one dict: dict(zip(keys, v)) for v in product(*values)
GridOfDict(p) ==
    LET items == SortedItems(p)
        keys == [i \in 1..Len(items) |-> items[i][1]]
        values == [i \in 1..Len(items) |-> items[i][2]]
        tuples == Product(values)
    IN  [j \in 1..Len(tuples) |-> [keys |-> keys, vals |-> tuples[j]]]

\* a faulty variant: only the first dict of the list is iterated
ParameterGridFirstDict(param_grid) == GridOfDict(param_grid[1])

\* ParameterGrid(param_grid).__iter__: the dicts one after the other
ParameterGrid(param_grid) ==
    Flatten([g \in 1..Len(param_grid) |-> GridOfDict(param_grid[g])])

\* params[name] of a candidate
Param(cand, name) ==
    cand.vals[CHOOSE i \in 1..Len(cand.keys) : cand.keys[i] = name]

HasParam(cand, name) == \E i \in 1..Len(cand.keys) : cand.keys[i] = name

(***************************************************************************)
(* plot_feature_stacker: the script and its grid.                          *)
(***************************************************************************)
FeatureStacker == "plot_feature_stacker"

\* svm__C=[0.1, 1, 10] is held in tenths
FS_param_grid ==
    << << <<"features__pca__n_components", <<1, 2, 3>> >>,
          <<"features__univ_select__k", <<1, 2>> >>,
          <<"svm__C", <<1, 10, 100>> >> >> >>

\* the statements of the script, by kind
FS_Script ==
    << "call",        \* iris = load_iris()
       "assign",      \* X, y = iris.data, iris.target
       "call",        \* pca = PCA(n_components=2)
       "call",        \* selection = SelectKBest(k=1)
       "call",        \* combined_features = FeatureUnion([...])
       "call",        \* X_features = combined_features.fit(X, y).transform(X)
       "call",        \* svm = SVC(kernel="linear")
       "call",        \* pipeline = Pipeline([...])
       "assign",      \* param_grid = dict(...)
       "new_grid",    \* grid_search = GridSearchCV(pipeline, param_grid, verbose=10)
       "grid.fit",    \* grid_search.fit(X, y)
       "print_best" >>  \* print(grid_search.best_estimator_)

FS_candidates == ParameterGrid(FS_param_grid)

\* number of correctly classified test samples of every candidate on every
\* fold in the captured run (score * test fold size)
FS_CapturedScores ==
    << <<49, 46, 47>>, <<48, 47, 47>>, <<49, 47, 47>>,
       <<49, 47, 47>>, <<49, 47, 48>>, <<50, 46, 48>>,
       <<49, 46, 47>>, <<50, 48, 47>>, <<50, 48, 47>>,
       <<50, 48, 47>>, <<51, 49, 47>>, <<50, 47, 48>>,
       <<50, 48, 47>>, <<51, 48, 47>>, <<51, 47, 48>>,
       <<50, 48, 47>>, <<51, 49, 47>>, <<51, 47, 48>> >>

\* sizes of the three test folds of the 150 iris samples
FS_TestSizes == <<51, 51, 48>>

(***************************************************************************)
(* plot_compare_reduction: the script and its grid.                        *)
(***************************************************************************)
CompareReduction == "plot_compare_reduction"

N_FEATURES_OPTIONS == <<2, 4, 8>>

C_OPTIONS == <<1, 10, 100, 1000>>

CR_param_grid ==
    << << <<"reduce_dim", <<"PCA(iterated_power=7)", "NMF()">> >>,
          <<"reduce_dim__n_components", N_FEATURES_OPTIONS>>,
          <<"classify__C", C_OPTIONS>> >>,
       << <<"reduce_dim", <<"SelectKBest(chi2)">> >>,
          <<"reduce_dim__k", N_FEATURES_OPTIONS>>,
          <<"classify__C", C_OPTIONS>> >> >>

reducer_labels == <<"PCA", "NMF", "KBest(chi2)">>

CR_Script ==
    << "call",             \* print(__doc__)
       "call",             \* pipe = Pipeline([...])
       "assign",           \* N_FEATURES_OPTIONS = [2, 4, 8]
       "assign",           \* C_OPTIONS = [1, 10, 100, 1000]
       "call",             \* param_grid = [{... PCA(iterated_power=7), NMF() ...}, ...]
       "assign",           \* reducer_labels = [...]
       "new_grid",         \* grid = GridSearchCV(pipe, cv=3, n_jobs=1, ...)
       "call",             \* digits = load_digits()
       "grid.fit",         \* grid.fit(digits.data, digits.target)
       "np.array",         \* mean_scores = np.array(grid.cv_results_[...])
       "reshape",          \* mean_scores = mean_scores.reshape(...)
       "max",              \* mean_scores = mean_scores.max(axis=0)
       "call",             \* bar_offsets = np.arange(...) ...
       "call",             \* plt.figure()
       "assign",           \* COLORS = 'bgrcmyk'
       "for",              \* for i, (label, reducer_scores) in ...: plt.bar(...)
       "call",             \* plt.title(...)
       "call",             \* plt.xlabel(...)
       "call",             \* plt.xticks(...)
       "call",             \* plt.ylabel(...)
       "call",             \* plt.ylim((0, 1))
       "call",             \* plt.legend(loc='upper left')
       "mkdtemp",          \* cachedir = mkdtemp()
       "call",             \* memory = Memory(cachedir=cachedir, verbose=10)
       "call",             \* cached_pipe = Pipeline([...], memory=memory)
       "new_cached_grid",  \* grid = GridSearchCV(cached_pipe, cv=3, n_jobs=1, ...)
       "call",             \* digits = load_digits()
       "grid.fit",         \* grid.fit(digits.data, digits.target)
       "rmtree",           \* rmtree(cachedir)
       "call" >>           \* plt.show()

CR_candidates == ParameterGrid(CR_param_grid)

\* the estimator a candidate puts in the 'reduce_dim' step
Reducer(cand) == Param(cand, "reduce_dim")

\* the number of features a candidate reduces to
NFeatures(cand) ==
    IF HasParam(cand, "reduce_dim__k") THEN Param(cand, "reduce_dim__k")
    ELSE Param(cand, "reduce_dim__n_components")

(***************************************************************************)
(* What a script is made of.                                               *)
(***************************************************************************)
(***************************************************************************)
(* The scripts with for loops over literal sequences: the OPTICS demo and  *)
(* GPC on iris.  Their library calls are statements with no tracked effect.*)
(***************************************************************************)
Optics == "plot_optics"

OPTICS_Script ==
    << "call",    \* np.random.seed(0)
       "assign",  \* n_points_per_cluster = 250
       "call",    \* C1 = [-5, -2] + .8 * np.random.randn(...)
       "call",    \* C2 = ...
       "call",    \* C3 = ...
       "call",    \* C4 = ...
       "call",    \* C5 = ...
       "call",    \* C6 = ...
       "call",    \* X = np.vstack((C1, C2, C3, C4, C5, C6))
       "call",    \* clust = OPTICS(min_samples=9, rejection_ratio=0.5)
       "call",    \* clust.fit(X)
       "call",    \* _, labels_025 = clust.extract_dbscan(0.25)
       "call",    \* _, labels_075 = clust.extract_dbscan(0.75)
       "call",    \* space = np.arange(len(X))
       "call",    \* reachability = clust.reachability_[clust.ordering_]
       "call",    \* labels = clust.labels_[clust.ordering_]
       "call",    \* plt.figure(figsize=(10, 7))
       "call",    \* G = gridspec.GridSpec(2, 3)
       "call",    \* ax1 = plt.subplot(G[0, :])
       "call",    \* ax2 = plt.subplot(G[1, 0])
       "call",    \* ax3 = plt.subplot(G[1, 1])
       "call",    \* ax4 = plt.subplot(G[1, 2])
       "assign",  \* color = ['g.', 'r.', 'b.', 'y.', 'c.']
       "for",     \* for k, c in zip(range(0, 5), color): ax1.plot(...)
       "call",    \* ax1.plot(space[labels == -1], ..., 'k.')
       "call",    \* ax1.plot(space, np.full_like(space, 0.75), 'k-')
       "call",    \* ax1.plot(space, np.full_like(space, 0.25), 'k-.')
       "call",    \* ax1.set_ylabel(...)
       "call",    \* ax1.set_title('Reachability Plot')
       "assign",  \* color = ['g.', 'r.', 'b.', 'y.', 'c.']
       "for",     \* for k, c in zip(range(0, 5), color): ax2.plot(...)
       "call",    \* ax2.plot(X[clust.labels_ == -1, 0], ..., 'k+')
       "call",    \* ax2.set_title(...)
       "assign",  \* color = ['g', 'greenyellow', 'olive', 'r', 'b', 'c']
       "for",     \* for k, c in zip(range(0, 6), color): ax3.plot(...)
       "call",    \* ax3.plot(X[labels_025 == -1, 0], ..., 'k+')
       "call",    \* ax3.set_title(...)
       "assign",  \* color = ['g.', 'm.', 'y.', 'c.']
       "for",     \* for k, c in zip(range(0, 4), color): ax4.plot(...)
       "call",    \* ax4.plot(X[labels_075 == -1, 0], ..., 'k+')
       "call",    \* ax4.set_title(...)
       "call",    \* plt.tight_layout()
       "call" >>  \* plt.show()

\* the colour lists of the four plotting loops, in script order
OPTICS_colors ==
    << <<"g.", "r.", "b.", "y.", "c.">>,
       <<"g.", "r.", "b.", "y.", "c.">>,
       <<"g", "greenyellow", "olive", "r", "b", "c">>,
       <<"g.", "m.", "y.", "c.">> >>

\* the upper ends of range(0, n) in the four loops
OPTICS_ranges == <<5, 5, 6, 4>>

GpcIris == "plot_gpc_iris"

IRIS_Script ==
    << "call",    \* print(__doc__)
       "call",    \* iris = datasets.load_iris()
       "call",    \* X = iris.data[:, :2]
       "call",    \* y = np.array(iris.target, dtype=int)
       "assign",  \* h = .02
       "call",    \* kernel = 1.0 * RBF([1.0])
       "call",    \* gpc_rbf_isotropic = GaussianProcessClassifier(kernel=kernel).fit(X, y)
       "call",    \* kernel = 1.0 * RBF([1.0, 1.0])
       "call",    \* gpc_rbf_anisotropic = GaussianProcessClassifier(kernel=kernel).fit(X, y)
       "call",    \* x_min, x_max = X[:, 0].min() - 1, X[:, 0].max() + 1
       "call",    \* y_min, y_max = X[:, 1].min() - 1, X[:, 1].max() + 1
       "call",    \* xx, yy = np.meshgrid(...)
       "assign",  \* titles = ['Isotropic RBF', 'Anisotropic RBF']
       "call",    \* plt.figure(figsize=(10, 5))
       "for",     \* for i, clf in enumerate((gpc_rbf_isotropic, gpc_rbf_anisotropic)): ...
       "call",    \* plt.tight_layout()
       "call" >>  \* plt.show()

\* (gpc_rbf_isotropic, gpc_rbf_anisotropic)
IRIS_classifiers == <<"gpc_rbf_isotropic", "gpc_rbf_anisotropic">>

Script(sc) ==
    CASE sc = FeatureStacker -> FS_Script
      [] sc = CompareReduction -> CR_Script
      [] sc = Optics -> OPTICS_Script
      [] sc = GpcIris -> IRIS_Script

Candidates(sc) ==
    CASE sc = FeatureStacker -> FS_candidates
      [] sc = CompareReduction -> CR_candidates
      [] OTHER -> <<>>

\* cv=3 (the default of GridSearchCV in the feature stacker)
n_folds == 3

\* n_jobs=1: joblib runs one fit at a time
n_jobs == 1

\* verbose=10 prints the [CV] lines
Verbose(sc) == sc = FeatureStacker

\* a faulty variant: every candidate is fitted n_folds times on the first fold
TasksFoldRepeated(cands) ==
    Product(<< [c \in 1..Len(cands) |-> c], [f \in 1..n_folds |-> 1] >>)

\* for parameters, (train, test) in product(candidate_params, cv.split(X, y))
TasksOf(cands) ==
    Product(<< [c \in 1..Len(cands) |-> c], [f \in 1..n_folds |-> f] >>)

FS_tasks == TasksOf(FS_candidates)

CR_tasks == TasksOf(CR_candidates)

Tasks(sc) == IF sc = FeatureStacker THEN FS_tasks ELSE CR_tasks

Min(a, b) == IF a <= b THEN a ELSE b

\* test score of candidate c on fold f: the number of test samples it
\* classifies correctly.  The base of the feature stacker is the captured
\* run; the digits run prints no scores and its base is 0.  The data may
\* differ from the base run in that candidate bst.cand classifies bst.gain
\* more samples of every fold correctly.
Score(sc, bst, c, f) ==
    LET gain == IF c = bst.cand THEN bst.gain ELSE 0
    IN  IF sc = FeatureStacker
        THEN Min(FS_TestSizes[f], FS_CapturedScores[c][f] + gain)
        ELSE gain

(***************************************************************************)
(* GridSearchCV: results of a fit.                                         *)
(***************************************************************************)
\* test_scores.reshape(n_candidates, n_splits) of the fits' scores, then the
\* mean over the folds.  With iid=True the mean is weighted by the test fold
\* sizes, so it is (sum of the fold scores) / (number of samples); the
\* common denominator is left out.
MeanTestScore(sc, scores) ==
    [c \in 1..Len(Candidates(sc)) |->
        SumSeq([f \in 1..n_folds |-> scores[(c - 1) * n_folds + f].score])]

\* rankdata(-means, method='min')
RankTestScore(means) ==
    [c \in DOMAIN means |->
        1 + Cardinality({d \in DOMAIN means : means[d] > means[c]})]

\* a faulty variant: the largest index of a non-empty set
LastIndex(S) == CHOOSE c \in S : \A d \in S : d <= c

\* np.flatnonzero(...)[0]: the smallest index of a non-empty set
FirstIndex(S) == CHOOSE c \in S : \A d \in S : c <= d

\* best_index_ = np.flatnonzero(results["rank_test_score"] == 1)[0]
BestIndex(means) ==
    LET rank == RankTestScore(means)
    IN  FirstIndex({c \in DOMAIN means : rank[c] = 1})

(***************************************************************************)
(* joblib Memory around sklearn.pipeline._fit_transform_one.               *)
(***************************************************************************)
\* a faulty variant: the refit is given the training data of the last fold
FullDataAsFold == n_folds

\* the training data of a fit: fold f in 1..n_folds, or all the samples
FullData == 0

\* the numbers of a set in increasing order (as np.unique gives classes_)
RECURSIVE SortedSeqOf(_)
SortedSeqOf(S) ==
    IF S = {} THEN <<>>
    ELSE LET m == CHOOSE v \in S : \A w \in S : v <= w
         IN  <<m>> \o SortedSeqOf(S \ {m})

\* pipe and cached_pipe: Pipeline([('reduce_dim', PCA()), ('classify', LinearSVC())])
pipe ==
    [reduce_dim |-> [est |-> "PCA()", params |-> [n_components |-> 0]],
     classify |-> [est |-> "LinearSVC()", params |-> [C |-> 1]]]

\* a parameter name, split at '__' into the step and the step's parameter
ParamPath(name) ==
    CASE name = "reduce_dim" -> <<"reduce_dim">>
      [] name = "reduce_dim__n_components" -> <<"reduce_dim", "n_components">>
      [] name = "reduce_dim__k" -> <<"reduce_dim", "k">>
      [] name = "classify__C" -> <<"classify", "C">>

\* the estimator a value of 'reduce_dim' in param_grid stands for, with the
\* parameter the grid changes at its default (0 for None)
NewEstimator(v) ==
    IF v = "SelectKBest(chi2)"
    THEN [est |-> v, params |-> [k |-> 10]]
    ELSE [est |-> v, params |-> [n_components |-> 0]]

\* estimator.set_params(name=v); a name the estimator does not have is an
\* invalid parameter
SetStepParam(t, name, v) ==
    IF name \in DOMAIN t.params
    THEN [t EXCEPT !.params[name] = v]
    ELSE [est |-> "invalid parameter", params |-> t.params]

\* one item of pipeline.set_params(**params)
SetOne(pl, name, v) ==
    LET path == ParamPath(name)
    IN  IF Len(path) = 1
        THEN [pl EXCEPT ![path[1]] = NewEstimator(v)]
        ELSE [pl EXCEPT ![path[1]] = SetStepParam(pl[path[1]], path[2], v)]

RECURSIVE SetAll(_, _, _)
SetAll(pl, cand, order) ==
    IF order = <<>> THEN pl
    ELSE SetAll(SetOne(pl, cand.keys[Head(order)], cand.vals[Head(order)]),
                cand, Tail(order))

\* the positions of the candidate's keys that name a step, and the others
StepKeys(cand) ==
    SortedSeqOf({i \in DOMAIN cand.keys : Len(ParamPath(cand.keys[i])) = 1})

NestedKeys(cand) ==
    SortedSeqOf({i \in DOMAIN cand.keys : Len(ParamPath(cand.keys[i])) > 1})

\* a faulty variant: the parameters of the steps are set before the steps
\* are replaced
NestedFirst(cand) == NestedKeys(cand) \o StepKeys(cand)

\* Pipeline.set_params replaces steps first and sets their parameters after
StepsFirst(cand) == StepKeys(cand) \o NestedKeys(cand)

\* clone(pipe).set_params(**candidate)
SetParams(pl, cand) == SetAll(pl, cand, StepsFirst(cand))

\* the transformer _fit_transform_one is called with for a candidate
FittedTransformer(cand) == SetParams(pipe, cand).reduce_dim

\* the number of features the transformer keeps
SizeParam(t) ==
    IF "k" \in DOMAIN t.params THEN t.params.k ELSE t.params.n_components

\* a faulty variant: the training data is no part of the key
CacheKeyNoData(cand, data) ==
    <<FittedTransformer(cand).est, SizeParam(FittedTransformer(cand)), n_folds>>

\* the key of a cached call: the transformer with its parameters, and the
\* training data (a fold's, or all of it)
CacheKey(cand, data) ==
    <<FittedTransformer(cand).est, SizeParam(FittedTransformer(cand)), data>>

\* the keys of the cached digits grid, the only one with a memory: of every
\* candidate on the training part of every fold and on the full data
CR_keys ==
    [c \in 1..Len(CR_candidates) |->
        [d \in 0..n_folds |-> CacheKey(CR_candidates[c], d)]]

\* a faulty variant: a call that does not store its result
CacheNoStore(store, key) == store

\* the store after a call with this key
CacheAfterCall(store, key) == store \cup {key}

\* a faulty variant: the result is taken from the cache whether or not
\* it is there
MemoryEventLoadOnly(store, key, c) ==
    [kind |-> "load", key |-> key, cand |-> c]

\* the [Memory] event of a call with this key
MemoryEvent(store, key, c) ==
    [kind |-> IF key \in store THEN "load" ELSE "exec", key |-> key, cand |-> c]

(***************************************************************************)
(* mean_scores of plot_compare_reduction.                                  *)
(***************************************************************************)
\* the length reshape(a, -1, c) gives the middle axis
MiddleAxis(flat, a, c) == Len(flat) \div (a * c)

\* flat.reshape(a, -1, c) in C order, 1-based
Reshape3(flat, a, c) ==
    LET b == MiddleAxis(flat, a, c)
    IN  [ia \in 1..a |-> [ib \in 1..b |-> [ic \in 1..c |->
            flat[((ia - 1) * b + (ib - 1)) * c + ic]]]]

MaxOf(S) == CHOOSE m \in S : \A v \in S : v <= m

\* arr.max(axis=0)
MaxAxis0(arr) ==
    [ib \in 1..Len(arr[1]) |-> [ic \in 1..Len(arr[1][1]) |->
        MaxOf({arr[ia][ib][ic] : ia \in 1..Len(arr)})]]

(***************************************************************************)
(* Initial states.                                                         *)
(***************************************************************************)
\* the base run, or one candidate of n scoring 1..MaxGain above it
Boosts(n) ==
    {[cand |-> 0, gain |-> 0]}
        \cup {[cand |-> c, gain |-> g] : c \in 1..n, g \in 1..MaxGain}

\* nothing of a grid search or of a cache exists yet
NoGridSearch ==
    /\ trace = <<>>
    /\ loop_i = 0
    /\ iterated = <<>>
    /\ toplevel_error = "none"
    /\ gs_phase = "idle"
    /\ gs_done = 0
    /\ inflight = {}
    /\ cvlog = <<>>
    /\ fold_scores = <<>>
    /\ announced = <<>>
    /\ mean_test_score = <<>>
    /\ best_index_ = 0
    /\ printed = <<>>
    /\ grid_memory = FALSE
    /\ cachedir = "none"
    /\ cache = {}
    /\ memlog = <<>>
    /\ rmtree_at = -1
    /\ mean_scores = <<>>

InitScript(sc) ==
    /\ script = sc
    /\ pc = 1
    /\ status = "running"
    /\ boost \in Boosts(Len(Candidates(sc)))
    /\ NoGridSearch

\* the examples that are not grid-search scripts leave these variables alone
ScriptIdle(sc) ==
    /\ script = sc
    /\ pc = 0
    /\ status = "idle"
    /\ boost = [cand |-> 0, gain |-> 0]
    /\ NoGridSearch

(***************************************************************************)
(* Statements.                                                             *)
(***************************************************************************)
Kind == Script(script)[pc]

\* the exceptions a library call may raise
Exceptions == {"ValueError", "MemoryError"}

\* the statement at pc returned: the interpreter moves to the next one
Advance ==
    /\ pc' = pc + 1
    /\ trace' = Append(trace, <<pc, "ok">>)
    /\ status' = IF pc = Len(Script(script)) THEN "done" ELSE "running"
    /\ UNCHANGED <<script, toplevel_error, loop_i, iterated>>

\* a statement with no effect the model tracks
Call ==
    /\ status = "running"
    /\ UNCHANGED nonscript
    /\ Kind \in {"call", "assign"}
    /\ Advance
    /\ UNCHANGED <<gsvars, cachevars, mean_scores>>

\* zip(a, b) stops with the shorter of its arguments
ZipLength(a, b) == Min(a, b)

\* the number of for statements among the first p statements of a script
ForsUpTo(sc, p) == Cardinality({q \in 1..p : Script(sc)[q] = "for"})

\* the length of the sequence the for statement at p iterates over
LoopOver(sc, p) ==
    CASE sc = CompareReduction ->
             \* enumerate(zip(reducer_labels, mean_scores))
             ZipLength(Len(reducer_labels), Len(mean_scores))
      [] sc = Optics ->
             \* zip(range(0, n), color)
             ZipLength(OPTICS_ranges[ForsUpTo(sc, p)],
                       Len(OPTICS_colors[ForsUpTo(sc, p)]))
      [] sc = GpcIris ->
             \* enumerate((gpc_rbf_isotropic, gpc_rbf_anisotropic))
             Len(IRIS_classifiers)

\* a faulty variant: the iterator does not move on
NextIndexStuck(i) == i

\* the iterator moves to the next element
NextIndex(i) == i + 1

\* one iteration of the for loop at pc: the body runs for the next element
ForBody ==
    /\ status = "running"
    /\ UNCHANGED nonscript
    /\ Kind = "for"
    /\ loop_i < LoopOver(script, pc)
    /\ loop_i' = NextIndex(loop_i)
    /\ UNCHANGED <<script, pc, status, trace, toplevel_error, iterated,
                   gsvars, cachevars, mean_scores>>

\* the sequence is exhausted: the loop ends and the next statement follows
ForExit ==
    /\ status = "running"
    /\ UNCHANGED nonscript
    /\ Kind = "for"
    /\ loop_i >= LoopOver(script, pc)
    /\ iterated' = Append(iterated, <<pc, loop_i>>)
    /\ loop_i' = 0
    /\ pc' = pc + 1
    /\ trace' = Append(trace, <<pc, "ok">>)
    /\ status' = IF pc = Len(Script(script)) THEN "done" ELSE "running"
    /\ UNCHANGED <<script, toplevel_error, gsvars, cachevars, mean_scores>>

\* grid = GridSearchCV(pipe or cached_pipe, ...): a fresh, unfitted search
NewGrid ==
    /\ status = "running"
    /\ UNCHANGED nonscript
    /\ Kind \in {"new_grid", "new_cached_grid"}
    /\ grid_memory' = (Kind = "new_cached_grid")
    /\ best_index_' = 0
    /\ mean_test_score' = <<>>
    /\ Advance
    /\ UNCHANGED <<boost, gs_phase, gs_done, inflight, cvlog, fold_scores,
                   announced, printed, cachevars, mean_scores>>

\* a faulty variant: the exception is swallowed and the script goes on
StatusAfterSwallow == "running"

\* status of the script once a statement has raised
StatusAfterRaise == "raised"

\* what reaches the top level when a library call raises err
Propagated(err) == err

\* a library call raises: nothing in the scripts catches it
Raise(err) ==
    /\ status = "running"
    /\ UNCHANGED nonscript
    /\ Kind # "assign"
    /\ trace' = Append(trace, <<pc, err>>)
    /\ status' = StatusAfterRaise
    /\ toplevel_error' = Propagated(err)
    /\ inflight' = {}
    /\ UNCHANGED <<script, pc, loop_i, iterated, boost, gs_phase, gs_done, cvlog, fold_scores,
                   announced, mean_test_score, best_index_, printed,
                   grid_memory, cachevars, mean_scores>>

(***************************************************************************)
(* GridSearchCV.fit, one (candidate, fold) fit at a time.                  *)
(***************************************************************************)
\* a faulty variant: fits are handed out without waiting for the running one
MayDispatchAlways(running) == TRUE

\* joblib hands out a fit only while fewer than n_jobs are running
MayDispatch(running) == Cardinality(running) < n_jobs

\* grid.fit(X, y) is entered
GridFitBegin ==
    /\ status = "running"
    /\ UNCHANGED nonscript
    /\ Kind = "grid.fit"
    /\ gs_phase = "idle"
    /\ gs_phase' = "fitting"
    /\ gs_done' = 0
    /\ fold_scores' = <<>>
    /\ announced' = IF Verbose(script)
                    THEN Append(announced,
                                [folds |-> n_folds,
                                 candidates |-> Len(Candidates(script)),
                                 fits |-> Len(Candidates(script)) * n_folds])
                    ELSE announced
    /\ UNCHANGED <<scriptvars, boost, inflight, cvlog, mean_test_score,
                   best_index_, printed, grid_memory, cachevars, mean_scores>>

\* _fit_and_score starts on the next (candidate, fold) of the task list
FitStart ==
    /\ status = "running"
    /\ UNCHANGED nonscript
    /\ Kind = "grid.fit"
    /\ gs_phase = "fitting"
    /\ MayDispatch(inflight)
    /\ LET t == gs_done + Cardinality(inflight) + 1
       IN  /\ t <= Len(Tasks(script))
           /\ inflight' = inflight \cup {t}
           /\ cvlog' = IF Verbose(script)
                       THEN Append(cvlog, [kind |-> "start",
                                           cand |-> Tasks(script)[t][1],
                                           fold |-> Tasks(script)[t][2],
                                           score |-> -1])
                       ELSE cvlog
    /\ UNCHANGED <<scriptvars, boost, gs_phase, gs_done, fold_scores,
                   announced, mean_test_score, best_index_, printed,
                   grid_memory, cachevars, mean_scores>>

\* _fit_and_score completes: the pipeline was fitted on the training part of
\* the fold (its transformer through the memory, if it has one) and scored
FitEnd ==
    /\ status = "running"
    /\ UNCHANGED nonscript
    /\ Kind = "grid.fit"
    /\ gs_phase = "fitting"
    /\ \E t \in inflight :
         /\ inflight' = inflight \ {t}
         /\ gs_done' = gs_done + 1
         /\ fold_scores' =
                Append(fold_scores,
                       [cand |-> Tasks(script)[t][1],
                        fold |-> Tasks(script)[t][2],
                        score |-> Score(script, boost, Tasks(script)[t][1],
                                        Tasks(script)[t][2])])
         /\ LET fitted == fold_scores'[Len(fold_scores')]
            IN  /\ cvlog' = IF Verbose(script)
                            THEN Append(cvlog, [kind |-> "end",
                                                cand |-> fitted.cand,
                                                fold |-> fitted.fold,
                                                score |-> fitted.score])
                            ELSE cvlog
                /\ IF grid_memory
                   THEN /\ memlog' = Append(memlog,
                               MemoryEvent(cache,
                                   CR_keys[fitted.cand][fitted.fold],
                                   fitted.cand))
                        /\ cache' = CacheAfterCall(cache, memlog'[Len(memlog')].key)
                   ELSE UNCHANGED <<memlog, cache>>
    /\ UNCHANGED <<scriptvars, boost, gs_phase, announced, mean_test_score,
                   best_index_, printed, grid_memory, cachedir, rmtree_at,
                   mean_scores>>

\* all fits are in: cv_results_ and best_index_ are computed, the best
\* candidate is refitted on all the data, and grid.fit returns
GridFitEnd ==
    /\ status = "running"
    /\ UNCHANGED nonscript
    /\ Kind = "grid.fit"
    /\ gs_phase = "fitting"
    /\ gs_done = Len(Tasks(script))
    /\ inflight = {}
    /\ mean_test_score' = MeanTestScore(script, fold_scores)
    /\ best_index_' = BestIndex(mean_test_score')
    /\ IF grid_memory
       THEN LET key == CR_keys[best_index_'][FullData]
            IN  /\ memlog' = Append(memlog, MemoryEvent(cache, key, best_index_'))
                /\ cache' = CacheAfterCall(cache, key)
       ELSE UNCHANGED <<memlog, cache>>
    /\ gs_phase' = "idle"
    /\ Advance
    /\ UNCHANGED <<boost, gs_done, inflight, cvlog, fold_scores, announced,
                   printed, grid_memory, cachedir, rmtree_at, mean_scores>>

\* print(grid_search.best_estimator_): the pipeline with the best parameters
PrintBest ==
    /\ status = "running"
    /\ UNCHANGED nonscript
    /\ Kind = "print_best"
    /\ printed' = Append(printed, Candidates(script)[best_index_])
    /\ Advance
    /\ UNCHANGED <<boost, gs_phase, gs_done, inflight, cvlog, fold_scores,
                   announced, mean_test_score, best_index_, grid_memory,
                   cachevars, mean_scores>>

(***************************************************************************)
(* The other statements of plot_compare_reduction.                         *)
(***************************************************************************)
\* mean_scores = np.array(grid.cv_results_['mean_test_score']): the flat
\* array of the scores, one entry for every candidate
MeanScoresArray ==
    /\ status = "running"
    /\ UNCHANGED nonscript
    /\ Kind = "np.array"
    /\ mean_scores' = mean_test_score
    /\ Advance
    /\ UNCHANGED <<gsvars, cachevars>>

\* reshape(a, -1, c) of an array of this size raises ValueError unless a * c
\* divides the size
ReshapeFits(size, a, c) == size % (a * c) = 0

\* mean_scores = mean_scores.reshape(len(C_OPTIONS), -1, len(N_FEATURES_OPTIONS))
\* the variable is bound to the reshaped array, or the call raises and the
\* variable keeps the flat array
MeanScoresReshape ==
    /\ status = "running"
    /\ UNCHANGED nonscript
    /\ Kind = "reshape"
    /\ IF ReshapeFits(Len(mean_scores), Len(C_OPTIONS), Len(N_FEATURES_OPTIONS))
       THEN /\ mean_scores' = Reshape3(mean_scores, Len(C_OPTIONS),
                                       Len(N_FEATURES_OPTIONS))
            /\ Advance
       ELSE /\ trace' = Append(trace, <<pc, "ValueError">>)
            /\ status' = StatusAfterRaise
            /\ toplevel_error' = Propagated("ValueError")
            /\ UNCHANGED <<script, pc, loop_i, iterated, mean_scores>>
    /\ UNCHANGED <<gsvars, cachevars>>

\* mean_scores = mean_scores.max(axis=0)
MeanScoresMax ==
    /\ status = "running"
    /\ UNCHANGED nonscript
    /\ Kind = "max"
    /\ mean_scores' = MaxAxis0(mean_scores)
    /\ Advance
    /\ UNCHANGED <<gsvars, cachevars>>

\* cachedir = mkdtemp(): a new, empty directory
Mkdtemp ==
    /\ status = "running"
    /\ UNCHANGED nonscript
    /\ Kind = "mkdtemp"
    /\ cachedir' = "exists"
    /\ cache' = {}
    /\ Advance
    /\ UNCHANGED <<gsvars, memlog, rmtree_at, mean_scores>>

\* state of the directory after rmtree(cachedir) returns
AfterRmtree == "deleted"

\* rmtree(cachedir): the directory and everything stored in it is removed
Rmtree ==
    /\ status = "running"
    /\ UNCHANGED nonscript
    /\ Kind = "rmtree"
    /\ cachedir' = AfterRmtree
    /\ cache' = {}
    /\ rmtree_at' = Len(memlog)
    /\ Advance
    /\ UNCHANGED <<gsvars, memlog, mean_scores>>

(***************************************************************************)
(* Specifications: one run of plot_feature_stacker, one run of             *)
(* plot_compare_reduction.                                                 *)
(***************************************************************************)
\* the grid-search scripts do not run the GPC example
GpcIdle ==
    /\ gpc_pc = "idle"
    /\ y = <<>>
    /\ gp = <<>>
    /\ y_true = <<>>
    /\ y_prob = <<>>
    /\ image = <<>>
    /\ cb_label = ""
    /\ red = {}
    /\ blue = {}

\* the other examples do not run get_results
GrIdle ==
    /\ gr_pc = "idle"
    /\ gr_call = 0
    /\ rng = 0
    /\ heap = <<>>
    /\ X_full = 0
    /\ y_full = 0
    /\ X_missing = 0
    /\ y_missing = 0
    /\ missing_samples = <<>>
    /\ missing_features = <<>>
    /\ written = {}
    /\ cv_calls = <<>>
    /\ results = <<>>
    /\ axes = <<>>
    /\ rng_at_entry = <<>>
    /\ residual = 0

OpIdle ==
    /\ op_pc = "idle"
    /\ clust = <<>>
    /\ space = <<>>
    /\ reachability = <<>>
    /\ labels = <<>>
    /\ op_k = 0
    /\ ax1 = <<>>
    /\ ax2 = <<>>

InitFS == InitScript(FeatureStacker) /\ GpcIdle /\ GrIdle /\ OpIdle

NextFS ==
    \/ Call
    \/ NewGrid
    \/ GridFitBegin
    \/ FitStart
    \/ FitEnd
    \/ GridFitEnd
    \/ PrintBest
    \/ \E err \in Exceptions : Raise(err)

SpecFS == InitFS /\ [][NextFS]_vars

InitCR == InitScript(CompareReduction) /\ GpcIdle /\ GrIdle /\ OpIdle

NextCR ==
    \/ Call
    \/ NewGrid
    \/ GridFitBegin
    \/ FitStart
    \/ FitEnd
    \/ GridFitEnd
    \/ MeanScoresArray
    \/ MeanScoresReshape
    \/ MeanScoresMax
    \/ Mkdtemp
    \/ Rmtree
    \/ ForBody
    \/ ForExit
    \/ \E err \in Exceptions : Raise(err)

SpecCR == InitCR /\ [][NextCR]_vars

\* a run of either script
Init == InitFS \/ InitCR

Next ==
    \/ Call
    \/ NewGrid
    \/ GridFitBegin
    \/ FitStart
    \/ FitEnd
    \/ GridFitEnd
    \/ PrintBest
    \/ MeanScoresArray
    \/ MeanScoresReshape
    \/ MeanScoresMax
    \/ Mkdtemp
    \/ Rmtree
    \/ ForBody
    \/ ForExit
    \/ \E err \in Exceptions : Raise(err)

Spec == Init /\ [][Next]_vars

(***************************************************************************)
(* plot_gpc_isoprobability.  Coordinates are held in thousandths, the      *)
(* values of g in units of 1/2000000, probabilities in units of            *)
(* 1/ProbScale.                                                            *)
(***************************************************************************)
GpcIsoprobability == "plot_gpc_isoprobability"

lim == 8

\* res = 50 in the script; the grid of the model has Res points per axis
Res == 3

\* the predicted probabilities are multiples of 1/ProbScale
ProbScale == 4

\* g(x) = 5. - x[:, 1] - .5 * x[:, 0] ** 2.
g(x) == 10000000 - 2000 * x[2] - x[1] * x[1]

\* the design of experiments, rounded to three decimals
X == << <<-4616, -6001>>, <<4105, 5328>>, <<0, -500>>, <<-6173, -4698>>,
        <<1311, -6933>>, <<-5038, 3106>>, <<-2876, 6743>>, <<5213, 4264>> >>

\* a faulty variant: the labels are exchanged
ObservationFlipped(x) == IF g(x) > 0 THEN 0 ELSE 1

\* np.array(g(X) > 0, dtype=int), one design point
Observation(x) == IF g(x) > 0 THEN 1 ELSE 0

\* np.linspace(-lim, lim, res)
Linspace == [i \in 1..Res |-> -lim * 1000 + ((i - 1) * 2 * lim * 1000) \div (Res - 1)]

\* xx: the points of np.meshgrid(linspace, linspace), the first coordinate
\* varying fastest
xx == [k \in 1..(Res * Res) |->
         <<Linspace[((k - 1) % Res) + 1], Linspace[((k - 1) \div Res) + 1]>>]

\* the levels at which a fitted classifier may separate the two classes
Thresholds == {-4000000, 0, 4000000}

\* the fitted classifier's probability that the label of x is 1
ProbOfOne(model, x) == IF g(x) > model.theta THEN model.hi ELSE model.lo

\* gp.predict_proba at one point: one column per class, in classes_ order
PredictProba(model, x) ==
    [col \in 1..Len(model.classes_) |->
        IF model.classes_[col] = 1 THEN ProbOfOne(model, x)
        ELSE ProbScale - ProbOfOne(model, x)]

\* [:, 1]: the second column
ColumnOne(row) == row[2]

InitGPC ==
    /\ ScriptIdle(GpcIsoprobability)
    /\ GrIdle
    /\ OpIdle
    /\ gpc_pc = "observations"
    /\ y = <<>>
    /\ gp = <<>>
    /\ y_true = <<>>
    /\ y_prob = <<>>
    /\ image = <<>>
    /\ cb_label = ""
    /\ red = {}
    /\ blue = {}

gridvars == <<scriptvars, gsvars, cachevars, mean_scores>>

\* what the GPC example leaves alone
notgpc == <<gridvars, grvars, opvars>>

\* y = np.array(g(X) > 0, dtype=int)
GpObservations ==
    /\ gpc_pc = "observations"
    /\ y' = [i \in 1..Len(X) |-> Observation(X[i])]
    /\ gpc_pc' = "fit"
    /\ UNCHANGED <<gp, y_true, y_prob, image, cb_label, red, blue, notgpc>>

\* gp.fit(X, y): some classifier of the two classes comes out
GpFit ==
    /\ gpc_pc = "fit"
    /\ \E theta \in Thresholds : \E lo \in 0..ProbScale : \E hi \in 0..ProbScale :
         gp' = [classes_ |-> SortedSeqOf(Range(y)), theta |-> theta,
                lo |-> lo, hi |-> hi]
    /\ gpc_pc' = "y_true"
    /\ UNCHANGED <<y, y_true, y_prob, image, cb_label, red, blue, notgpc>>

\* y_true = g(xx)
GpTrue ==
    /\ gpc_pc = "y_true"
    /\ y_true' = [k \in 1..Len(xx) |-> g(xx[k])]
    /\ gpc_pc' = "y_prob"
    /\ UNCHANGED <<y, gp, y_prob, image, cb_label, red, blue, notgpc>>

\* y_prob = gp.predict_proba(xx)[:, 1]
GpPredict ==
    /\ gpc_pc = "y_prob"
    /\ y_prob' = [k \in 1..Len(xx) |-> ColumnOne(PredictProba(gp, xx[k]))]
    /\ gpc_pc' = "imshow"
    /\ UNCHANGED <<y, gp, y_true, image, cb_label, red, blue, notgpc>>

\* what plt.imshow(arr, extent=(-lim, lim, -lim, lim)) shows at grid point
\* xx[k]. Row i of arr.reshape((res, res)) holds the values for
\* x2 = linspace[i]; no origin is given, so the origin is 'upper' and row 0
\* is drawn at the top of the extent, where x2 = lim: the point of row i
\* shows the value of row res - 1 - i
ImshowAt(arr, k) ==
    arr[(Res - 1 - ((k - 1) \div Res)) * Res + ((k - 1) % Res) + 1]

\* cax = plt.imshow(y_prob, ...)
GpImshow ==
    /\ gpc_pc = "imshow"
    /\ image' = [k \in 1..Len(xx) |-> ImshowAt(y_prob, k)]
    /\ gpc_pc' = "colorbar"
    /\ UNCHANGED <<y, gp, y_true, y_prob, cb_label, red, blue, notgpc>>

\* cb.set_label('P[G(x) <= 0]')
GpColorbar ==
    /\ gpc_pc = "colorbar"
    /\ cb_label' = "G(x) <= 0"
    /\ gpc_pc' = "plot_red"
    /\ UNCHANGED <<y, gp, y_true, y_prob, image, red, blue, notgpc>>

\* plt.plot(X[y <= 0, 0], X[y <= 0, 1], 'r.', markersize=12)
GpPlotRed ==
    /\ gpc_pc = "plot_red"
    /\ red' = {i \in 1..Len(X) : y[i] <= 0}
    /\ gpc_pc' = "plot_blue"
    /\ UNCHANGED <<y, gp, y_true, y_prob, image, cb_label, blue, notgpc>>

\* plt.plot(X[y > 0, 0], X[y > 0, 1], 'b.', markersize=12)
GpPlotBlue ==
    /\ gpc_pc = "plot_blue"
    /\ blue' = {i \in 1..Len(X) : y[i] > 0}
    /\ gpc_pc' = "show"
    /\ UNCHANGED <<y, gp, y_true, y_prob, image, cb_label, red, notgpc>>

\* the contour lines and plt.show()
GpShow ==
    /\ gpc_pc = "show"
    /\ gpc_pc' = "done"
    /\ UNCHANGED <<y, gp, y_true, y_prob, image, cb_label, red, blue, notgpc>>

NextGPC ==
    \/ GpObservations
    \/ GpFit
    \/ GpTrue
    \/ GpPredict
    \/ GpImshow
    \/ GpColorbar
    \/ GpPlotRed
    \/ GpPlotBlue
    \/ GpShow

SpecGPC == InitGPC /\ [][NextGPC]_vars

(***************************************************************************)
(* plot_missing_values: get_results(dataset), called for load_diabetes()   *)
(* and then for load_boston().                                             *)
(*                                                                         *)
(* A dataset is a matrix of n_samples rows and n_features columns.  The    *)
(* data sets themselves are not part of the sources, so the model ranges   *)
(* over small ones: every cell holds a distinct non-zero value, except in  *)
(* one optional column that holds 0 throughout (Boston has such entries).  *)
(* Arrays live in a heap, a name holds the identity of its array, so that  *)
(* X_full.copy() and a write through X_missing are told apart.             *)
(*                                                                         *)
(* np.random.RandomState(0) is a Mersenne Twister.  Its state is kept as   *)
(* the number of 32-bit words taken from it so far, and the words are      *)
(* those of the generator seeded with 0; shuffle and randint take words    *)
(* the way numpy does, masking each and rejecting the ones out of range.   *)
(***************************************************************************)
MissingValues == "plot_missing_values"

MaxSamples == 4
MaxFeatures == 2
MaxResidual == 1

\* the calls of the script, in order
GR_Calls == <<"load_diabetes", "load_boston">>

\* dataset.data: n rows, nf columns, column zcol (if any) all zero
DataMatrix(n, nf, zcol) ==
    [r \in 1..n |-> [f \in 1..nf |-> IF f = zcol THEN 0 ELSE 10 * r + f]]

\* dataset.target
TargetVector(n) == [r \in 1..n |-> 100 + r]

\* the Bunch objects a loader may return
Datasets ==
    { [data |-> DataMatrix(n, nf, zcol), target |-> TargetVector(n)] :
        n \in 1..MaxSamples, nf \in 1..MaxFeatures, zcol \in 0..MaxFeatures }

\* X.shape[0], X.shape[1]
n_samples(Xm) == Len(Xm)
n_features(Xm) == Len(Xm[1])

\* int(np.floor(n_samples * missing_rate)), missing_rate = 0.75
n_missing_samples(n) == (75 * n) \div 100

\* np.zeros(k, dtype=np.bool), np.ones(k, dtype=np.bool), np.hstack
Zeros(k) == [i \in 1..k |-> FALSE]
Ones(k) == [i \in 1..k |-> TRUE]
Hstack(a, b) == a \o b

\* the low 16 bits of the first words of RandomState(0); the ranges drawn
\* from are far below 2^16, so the bits masked away never matter
MT0 ==
    << 2732, 43567, 42613, 52416, 45891, 21243, 30403, 32103,
       41993, 57043, 20757, 55026, 46884, 14935, 15430, 48600,
       39512, 52620, 14650, 17089, 32230, 18983, 43095, 51374,
       24152, 35665, 59045, 16921, 27469, 38984, 6921, 38804,
       2163, 5072, 37619, 7877, 18430, 1871, 7599, 2496 >>

\* a faulty variant: a draw leaves the state where it was
RngStuck(s) == s

\* the state after one word was taken
RngNext(s) == s + 1

\* rk_random: the next word of the generator in state s
RkRandom(s) == MT0[s + 1]

\* the smallest number of the form 2^b - 1 that is not below max
RECURSIVE MaskFrom(_, _)
MaskFrom(max, m) == IF m >= max THEN m ELSE MaskFrom(max, 2 * m + 1)

Mask(max) == MaskFrom(max, 0)

\* rk_interval(max): a number of [0, max]. Nothing is drawn for max = 0;
\* otherwise words are masked and taken until one is not above max
RECURSIVE RkInterval(_, _)
RkInterval(s, max) ==
    IF max = 0 THEN [value |-> 0, rng |-> s]
    ELSE LET v == RkRandom(s) % (Mask(max) + 1)
         IN  IF v <= max THEN [value |-> v, rng |-> RngNext(s)]
             ELSE RkInterval(RngNext(s), max)

\* one integer of [low, high) and the state after the draw
RandInt(s, low, high) ==
    LET d == RkInterval(s, high - low - 1)
    IN  [value |-> low + d.value, rng |-> d.rng]

\* rng.randint(low, high, size): size draws, in order
RECURSIVE RandIntArray(_, _, _, _)
RandIntArray(s, low, high, size) ==
    IF size = 0 THEN [value |-> <<>>, rng |-> s]
    ELSE LET d == RandInt(s, low, high)
             rest == RandIntArray(d.rng, low, high, size - 1)
         IN  [value |-> <<d.value>> \o rest.value, rng |-> rest.rng]

\* a shuffle that copies an element instead of exchanging two
SwapOverwrite(arr, i, j) == [arr EXCEPT ![i] = arr[j]]

\* exchange of two elements
Swap(arr, i, j) == [arr EXCEPT ![i] = arr[j], ![j] = arr[i]]

\* rng.shuffle(arr): for i = n-1 down to 1, exchange arr[i] with arr[j],
\* j drawn from [0, i]; positions here count from 1
RECURSIVE ShuffleFrom(_, _, _)
ShuffleFrom(arr, i, s) ==
    IF i < 2 THEN [value |-> arr, rng |-> s]
    ELSE LET d == RkInterval(s, i - 1)
         IN  ShuffleFrom(Swap(arr, i, d.value + 1), i - 1, d.rng)

Shuffle(arr, s) == ShuffleFrom(arr, Len(arr), s)

\* np.where(mask)[0]: the indices (from 0) of the true entries, increasing
RECURSIVE WhereFrom(_, _)
WhereFrom(mask, i) ==
    IF i > Len(mask) THEN <<>>
    ELSE (IF mask[i] THEN <<i - 1>> ELSE <<>>) \o WhereFrom(mask, i + 1)

Where(mask) == WhereFrom(mask, 1)

\* the cells (row, column), from 0, that Xm[rows, cols] = v assigns
AssignedCells(rows, cols) == { <<rows[k], cols[k]>> : k \in DOMAIN rows }

\* Xm[rows, cols] = v
FancyAssign(Xm, rows, cols, v) ==
    [r \in DOMAIN Xm |->
        [f \in DOMAIN Xm[r] |->
            IF <<r - 1, f - 1>> \in AssignedCells(rows, cols) THEN v ELSE Xm[r][f]]]

\* the cells (row, column), from 0, that SimpleImputer(missing_values=v)
\* and MissingIndicator(missing_values=v) take as missing: those equal to v
MissingMask(Xv, v) ==
    { <<c[1] - 1, c[2] - 1>> :
        c \in { d \in (DOMAIN Xv) \X (1..n_features(Xv)) : Xv[d[1]][d[2]] = v } }

\* the folds of cross_val_score when cv is not given
n_splits == 3

\* a faulty variant: the error is scored without the change of sign
MeanSquaredErrorScore(e) == e * e

\* scoring='neg_mean_squared_error': the squared error, negated so that
\* greater is better
NegMeanSquaredError(e) == (e * e) * (-1)

\* prediction minus target on fold f. The forest is not computed: its error
\* is the residual of the run, scaled by the fold, plus one for every zero
\* of Xv that the estimator takes as a value
PredictionError(r, estimator, Xv, f) ==
    r * f + (IF estimator = "RandomForestRegressor"
             THEN Cardinality(MissingMask(Xv, 0))
             ELSE 0)

\* cross_val_score(estimator, Xv, yv): with random_state=0 and unshuffled
\* folds the scores are a function of the call's arguments, kept as such
CrossValScore(estimator, Xv, yv) ==
    [estimator |-> estimator, X |-> Xv, y |-> yv,
     treated_missing |-> IF estimator = "RandomForestRegressor"
                         THEN {}
                         ELSE MissingMask(Xv, 0),
     scores |-> [f \in 1..n_splits |->
                    NegMeanSquaredError(
                        PredictionError(residual, estimator, Xv, f))]]

\* scores.mean() of the k-th cross_val_score call, as the numerator over
\* n_splits
MeanTimesSplits(k) == SumSeq(cv_calls[k].scores)

\* scores.std() of the k-th cross_val_score call, the root of the mean
\* squared deviation from the mean: its square, times the square of n_splits
StdSquaredTimesSplitsSquared(k) ==
    n_splits * SumSeq([f \in 1..n_splits |->
                          cv_calls[k].scores[f] * cv_calls[k].scores[f]])
        - MeanTimesSplits(k) * MeanTimesSplits(k)

\* (scores.mean(), scores.std()) of the k-th cross_val_score call
MeanStd(k) == [mean_of |-> k, std_of |-> k]

\* a faulty variant: the last two pairs are exchanged
ReturnValueSwapped(k) == <<MeanStd(k - 2), MeanStd(k), MeanStd(k - 1)>>

\* return ((full_scores.mean(), full_scores.std()),
\*         (zero_impute_scores.mean(), zero_impute_scores.std()),
\*         (mean_impute_scores.mean(), mean_impute_scores.std()))
\* where the mean imputation scores are those of the k-th call
ReturnValue(k) == <<MeanStd(k - 2), MeanStd(k - 1), MeanStd(k)>>

x_labels == <<"Full data", "Zero imputation", "Mean Imputation">>

\* results[:, 0] * -1 and results[:, 1]
Mses(res) == [j \in DOMAIN res |-> [neg_mean_of |-> res[j].mean_of]]
Stds(res) == [j \in DOMAIN res |-> [std_of |-> res[j].std_of]]

\* for j in xval: ax.barh(j, mses[j], xerr=stds[j], ...);
\* ax.set_yticks(xval); ax.set_yticklabels(ticklabels)
\* barh is given no left: the bar at y runs from x = 0 to x = width, and its
\* error bar from width - xerr to width + xerr
BarChart(res, ticklabels) ==
    [bars |-> [j \in DOMAIN res |->
                  [y |-> j - 1, left |-> 0, width |-> Mses(res)[j],
                   xerr |-> Stds(res)[j]]],
     yticks |-> [j \in DOMAIN res |-> j - 1],
     yticklabels |-> ticklabels]

\* mses = results[:, 0] * -1, as the numerator over n_splits
MseTimesSplits(m) == MeanTimesSplits(m.neg_mean_of) * (-1)

MinOf(S) == CHOOSE m \in S : \A v \in S : m <= v

\* ax1.set_xlim(left=np.min(mses_diabetes) * 0.9,
\*              right=np.max(mses_diabetes) * 1.1)
\* the limits are kept in tenths of the unit of the bars
SetXlim(chart, res) ==
    LET mses == { MseTimesSplits(Mses(res)[j]) : j \in DOMAIN res }
    IN  [bars |-> chart.bars,
         yticks |-> chart.yticks,
         yticklabels |-> chart.yticklabels,
         xlim |-> [left_x10 |-> MinOf(mses) * 9, right_x10 |-> MaxOf(mses) * 11]]

InitGR ==
    /\ ScriptIdle(MissingValues)
    /\ GpcIdle
    /\ OpIdle
    /\ gr_pc = "call"
    /\ gr_call = 1
    /\ rng = 0
    /\ heap = <<>>
    /\ X_full = 0
    /\ y_full = 0
    /\ X_missing = 0
    /\ y_missing = 0
    /\ missing_samples = <<>>
    /\ missing_features = <<>>
    /\ written = {}
    /\ cv_calls = <<>>
    /\ results = <<>>
    /\ axes = <<>>
    /\ rng_at_entry = <<>>
    /\ residual \in -MaxResidual..MaxResidual

\* what plot_missing_values leaves alone
notgr == <<gridvars, gpcvars, opvars>>

\* get_results(load_...()): X_full, y_full = dataset.data, dataset.target
GrEnter ==
    /\ gr_pc = "call"
    /\ \E dataset \in Datasets :
         /\ heap' = heap \o <<dataset.data, dataset.target>>
         /\ X_full' = Len(heap) + 1
         /\ y_full' = Len(heap) + 2
    /\ X_missing' = 0
    /\ y_missing' = 0
    /\ missing_samples' = <<>>
    /\ missing_features' = <<>>
    /\ written' = {}
    /\ rng_at_entry' = Append(rng_at_entry, rng)
    /\ gr_pc' = "full_scores"
    /\ UNCHANGED <<gr_call, rng, cv_calls, results, axes, residual, notgr>>

\* full_scores = cross_val_score(estimator, X_full, y_full, ...)
GrFullScores ==
    /\ gr_pc = "full_scores"
    /\ cv_calls' = Append(cv_calls,
           CrossValScore("RandomForestRegressor", heap[X_full], heap[y_full]))
    /\ gr_pc' = "missing_samples"
    /\ UNCHANGED <<gr_call, rng, heap, X_full, y_full, X_missing, y_missing,
                   missing_samples, missing_features, written, results, axes, rng_at_entry, residual, notgr>>

\* missing_samples = np.hstack((np.zeros(...), np.ones(...)))
GrMissingSamples ==
    /\ gr_pc = "missing_samples"
    /\ LET n == n_samples(heap[X_full])
       IN  missing_samples' =
               Hstack(Zeros(n - n_missing_samples(n)), Ones(n_missing_samples(n)))
    /\ gr_pc' = "shuffle"
    /\ UNCHANGED <<gr_call, rng, heap, X_full, y_full, X_missing, y_missing,
                   missing_features, written, cv_calls, results, axes, rng_at_entry, residual, notgr>>

\* rng.shuffle(missing_samples)
GrShuffle ==
    /\ gr_pc = "shuffle"
    /\ LET sh == Shuffle(missing_samples, rng)
       IN  /\ missing_samples' = sh.value
           /\ rng' = sh.rng
    /\ gr_pc' = "missing_features"
    /\ UNCHANGED <<gr_call, heap, X_full, y_full, X_missing, y_missing,
                   missing_features, written, cv_calls, results, axes, rng_at_entry, residual, notgr>>

\* missing_features = rng.randint(0, n_features, n_missing_samples)
GrMissingFeatures ==
    /\ gr_pc = "missing_features"
    /\ LET Xm == heap[X_full]
           d == RandIntArray(rng, 0, n_features(Xm),
                             n_missing_samples(n_samples(Xm)))
       IN  /\ missing_features' = d.value
           /\ rng' = d.rng
    /\ gr_pc' = "zero_impute"
    /\ UNCHANGED <<gr_call, heap, X_full, y_full, X_missing, y_missing,
                   missing_samples, written, cv_calls, results, axes, rng_at_entry, residual, notgr>>

\* a faulty variant: no copy is made, the name is bound to the same array
CopyAlias(h, ref) == [heap |-> h, ref |-> ref]

\* arr.copy(): a new array with the contents of the array ref names
Copy(h, ref) == [heap |-> Append(h, h[ref]), ref |-> Len(h) + 1]

\* X_missing = X_full.copy(); X_missing[np.where(missing_samples)[0],
\* missing_features] = 0; y_missing = y_full.copy(); the estimator's
\* cross_val_score(estimator, X_missing, y_missing, ...)
Experiment(estimator, next_pc) ==
    LET rows == Where(missing_samples)
        cx == Copy(heap, X_full)
        hx == [cx.heap EXCEPT ![cx.ref] =
                  FancyAssign(cx.heap[cx.ref], rows, missing_features, 0)]
        cy == Copy(hx, y_full)
    IN  /\ heap' = cy.heap
        /\ X_missing' = cx.ref
        /\ y_missing' = cy.ref
        /\ written' = AssignedCells(rows, missing_features)
        /\ cv_calls' = Append(cv_calls,
               CrossValScore(estimator, cy.heap[cx.ref], cy.heap[cy.ref]))
        /\ gr_pc' = next_pc
        /\ UNCHANGED <<gr_call, rng, X_full, y_full, missing_samples,
                       missing_features, results, axes, rng_at_entry, residual, notgr>>

\* the score after replacing missing values by 0
GrZeroImpute ==
    /\ gr_pc = "zero_impute"
    /\ Experiment("RandomForestRegressor", "mean_impute")

\* the score after imputation (mean strategy) of the missing values
GrMeanImpute ==
    /\ gr_pc = "mean_impute"
    /\ Experiment("make_pipeline(make_union(SimpleImputer, MissingIndicator), RandomForestRegressor)",
                  "return")

\* return ((full_scores.mean(), full_scores.std()), (zero_impute_scores...),
\* (mean_impute_scores...)); the script then makes its next call
GrReturn ==
    /\ gr_pc = "return"
    /\ results' = Append(results, ReturnValue(Len(cv_calls)))
    /\ IF gr_call < Len(GR_Calls)
       THEN /\ gr_call' = gr_call + 1
            /\ gr_pc' = "call"
       ELSE /\ gr_call' = gr_call
            /\ gr_pc' = "plot"
    /\ UNCHANGED <<rng, heap, X_full, y_full, X_missing, y_missing,
                   missing_samples, missing_features, written, cv_calls, axes, rng_at_entry, residual, notgr>>

\* the bar plots of results_diabetes and results_boston, and plt.show();
\* the second chart gets the labels [''] * n_bars
GrPlot ==
    /\ gr_pc = "plot"
    /\ axes' = << SetXlim(BarChart(results[1], x_labels), results[1]),
                  BarChart(results[2], [j \in DOMAIN results[1] |-> ""]) >>
    /\ gr_pc' = "done"
    /\ UNCHANGED <<gr_call, rng, heap, X_full, y_full, X_missing, y_missing,
                   missing_samples, missing_features, written, cv_calls,
                   results, rng_at_entry, residual, notgr>>

NextGR ==
    \/ GrEnter
    \/ GrFullScores
    \/ GrMissingSamples
    \/ GrShuffle
    \/ GrMissingFeatures
    \/ GrZeroImpute
    \/ GrMeanImpute
    \/ GrReturn
    \/ GrPlot

SpecGR == InitGR /\ [][NextGR]_vars

(***************************************************************************)
(* plot_optics: the reachability plot and the OPTICS panel.                *)
(***************************************************************************)
\* the samples of the model number at most this many
MaxPoints == 2

\* reachability distances, in hundredths: below the cut at 0.25, between
\* the cuts, above the cut at 0.75
ReachLevels == {10, 50, 90}

\* the orderings of n samples
Orderings(n) ==
    { o \in [1..n -> 1..n] : \A i, j \in 1..n : o[i] = o[j] => i = j }

\* what clust.fit(X) may leave for n samples: OPTICS is not computed, any
\* labels from -1 up to one more than the loops draw, any ordering and any
\* reachability come out
OpticsFits(n) ==
    [labels_ : [1..n -> -1..OPTICS_ranges[1]],
     ordering_ : Orderings(n),
     reachability_ : [1..n -> ReachLevels]]

\* a faulty variant: the array is left in sample order
TakeUnordered(arr, idx) == arr

\* arr[idx] for an index array idx (positions counted from 1)
Take(arr, idx) == [i \in 1..Len(idx) |-> arr[idx[i]]]

\* arr[lab == k]: the elements of arr at the positions where lab is k, in
\* increasing position
MaskSelect(arr, lab, k) ==
    Take(arr, SortedSeqOf({i \in 1..Len(lab) : lab[i] = k}))

\* np.arange(n)
Arange(n) == [i \in 1..n |-> i - 1]

\* np.full_like(a, v), v in hundredths: the result has the integer dtype of
\* a, the fill value loses its fraction
FullLike(a, v) == [i \in DOMAIN a |-> (v \div 100) * 100]

InitOptics ==
    /\ ScriptIdle(Optics)
    /\ GpcIdle
    /\ GrIdle
    /\ op_pc = "fit"
    /\ clust = <<>>
    /\ space = <<>>
    /\ reachability = <<>>
    /\ labels = <<>>
    /\ op_k = 0
    /\ ax1 = <<>>
    /\ ax2 = <<>>

\* what plot_optics leaves alone
notop == <<gridvars, gpcvars, grvars>>

\* clust.fit(X)
OpFit ==
    /\ op_pc = "fit"
    /\ \E n \in 1..MaxPoints : clust' \in OpticsFits(n)
    /\ op_pc' = "space"
    /\ UNCHANGED <<space, reachability, labels, op_k, ax1, ax2, notop>>

\* space = np.arange(len(X))
OpSpace ==
    /\ op_pc = "space"
    /\ space' = Arange(Len(clust.labels_))
    /\ op_pc' = "reachability"
    /\ UNCHANGED <<clust, reachability, labels, op_k, ax1, ax2, notop>>

\* reachability = clust.reachability_[clust.ordering_]
OpReachability ==
    /\ op_pc = "reachability"
    /\ reachability' = Take(clust.reachability_, clust.ordering_)
    /\ op_pc' = "labels"
    /\ UNCHANGED <<clust, space, labels, op_k, ax1, ax2, notop>>

\* labels = clust.labels_[clust.ordering_]
OpLabels ==
    /\ op_pc = "labels"
    /\ labels' = Take(clust.labels_, clust.ordering_)
    /\ op_pc' = "loop_ax1"
    /\ UNCHANGED <<clust, space, reachability, op_k, ax1, ax2, notop>>

\* for k, c in zip(range(0, 5), color):
\*     Xk = space[labels == k]; Rk = reachability[labels == k]
\*     ax1.plot(Xk, Rk, c, alpha=0.3)
OpReachabilityLoop ==
    /\ op_pc = "loop_ax1"
    /\ IF op_k < ZipLength(OPTICS_ranges[1], Len(OPTICS_colors[1]))
       THEN /\ ax1' = Append(ax1, [xs |-> MaskSelect(space, labels, op_k),
                                   ys |-> MaskSelect(reachability, labels, op_k),
                                   fmt |-> OPTICS_colors[1][op_k + 1]])
            /\ op_k' = NextIndex(op_k)
            /\ op_pc' = op_pc
       ELSE /\ ax1' = ax1
            /\ op_k' = 0
            /\ op_pc' = "noise_ax1"
    /\ UNCHANGED <<clust, space, reachability, labels, ax2, notop>>

\* ax1.plot(space[labels == -1], reachability[labels == -1], 'k.', alpha=0.3)
OpReachabilityNoise ==
    /\ op_pc = "noise_ax1"
    /\ ax1' = Append(ax1, [xs |-> MaskSelect(space, labels, -1),
                           ys |-> MaskSelect(reachability, labels, -1),
                           fmt |-> "k."])
    /\ op_pc' = "lines_ax1"
    /\ UNCHANGED <<clust, space, reachability, labels, op_k, ax2, notop>>

\* ax1.plot(space, np.full_like(space, 0.75), 'k-', alpha=0.5)
\* ax1.plot(space, np.full_like(space, 0.25), 'k-.', alpha=0.5)
OpCutLines ==
    /\ op_pc = "lines_ax1"
    /\ ax1' = ax1 \o << [xs |-> space, ys |-> FullLike(space, 75), fmt |-> "k-"],
                         [xs |-> space, ys |-> FullLike(space, 25), fmt |-> "k-."] >>
    /\ op_pc' = "loop_ax2"
    /\ UNCHANGED <<clust, space, reachability, labels, op_k, ax2, notop>>

\* for k, c in zip(range(0, 5), color):
\*     Xk = X[clust.labels_ == k]
\*     ax2.plot(Xk[:, 0], Xk[:, 1], c, alpha=0.3)
\* a row of X stands for its sample
OpScatterLoop ==
    /\ op_pc = "loop_ax2"
    /\ IF op_k < ZipLength(OPTICS_ranges[2], Len(OPTICS_colors[2]))
       THEN /\ ax2' = Append(ax2, [rows |-> MaskSelect([i \in DOMAIN clust.labels_ |-> i],
                                                       clust.labels_, op_k),
                                   fmt |-> OPTICS_colors[2][op_k + 1]])
            /\ op_k' = NextIndex(op_k)
            /\ op_pc' = op_pc
       ELSE /\ ax2' = ax2
            /\ op_k' = 0
            /\ op_pc' = "noise_ax2"
    /\ UNCHANGED <<clust, space, reachability, labels, ax1, notop>>

\* ax2.plot(X[clust.labels_ == -1, 0], X[clust.labels_ == -1, 1], 'k+', alpha=0.1)
OpScatterNoise ==
    /\ op_pc = "noise_ax2"
    /\ ax2' = Append(ax2, [rows |-> MaskSelect([i \in DOMAIN clust.labels_ |-> i],
                                               clust.labels_, -1),
                           fmt |-> "k+"])
    /\ op_pc' = "done"
    /\ UNCHANGED <<clust, space, reachability, labels, op_k, ax1, notop>>

NextOptics ==
    \/ OpFit
    \/ OpSpace
    \/ OpReachability
    \/ OpLabels
    \/ OpReachabilityLoop
    \/ OpReachabilityNoise
    \/ OpCutLines
    \/ OpScatterLoop
    \/ OpScatterNoise

SpecOptics == InitOptics /\ [][NextOptics]_vars

(***************************************************************************)
(* Every example script, with every library call returning: the            *)
(* interpreter runs one statement after the other, so a statement that can *)
(* run does run.                                                           *)
(***************************************************************************)
InitLoops ==
    /\ InitScript(Optics) \/ InitScript(GpcIris)
    /\ GpcIdle
    /\ GrIdle
    /\ OpIdle

\* every script from every one of its initial states; the error of the
\* forests of plot_missing_values has no part in the control flow and is
\* left at 0
InitAll ==
    /\ InitFS \/ InitCR \/ InitLoops \/ InitGPC \/ InitGR
    /\ residual = 0

NextReturning ==
    \/ Call
    \/ NewGrid
    \/ GridFitBegin
    \/ FitStart
    \/ FitEnd
    \/ GridFitEnd
    \/ PrintBest
    \/ MeanScoresArray
    \/ MeanScoresReshape
    \/ MeanScoresMax
    \/ Mkdtemp
    \/ Rmtree
    \/ ForBody
    \/ ForExit
    \/ NextGPC
    \/ NextGR

SpecReturning == InitAll /\ [][NextReturning]_vars /\ WF_vars(NextReturning)

(***************************************************************************)
(* Properties of the grid searches.                                        *)
(***************************************************************************)
\* number of entries of a sequence that satisfy Test
CountIn(s, Test(_)) == Cardinality({i \in DOMAIN s : Test(s[i])})

\* the second grid.fit of plot_compare_reduction (the cached one) returned
CachedFitReturned ==
    /\ script = CompareReduction
    /\ grid_memory
    /\ best_index_ # 0

\* the reducer configurations of the grid: (estimator, number of features)
ReducerConfigs ==
    {<<Reducer(CR_candidates[c]), NFeatures(CR_candidates[c])>> :
        c \in 1..Len(CR_candidates)}

\* C1: in the cached grid search the transformer fit of a (reducer
\* configuration, fold) is executed exactly while the first value of
\* classify__C is evaluated, and is loaded from the cache for each of the
\* other three values: once the search has returned, every configuration
\* and fold has one executed call and three cache loads.
C1_FitOnlyAtFirstC ==
    /\ \A i \in DOMAIN memlog :
         memlog[i].key[3] # FullData =>
            ( memlog[i].kind = "exec"
              <=> Param(CR_candidates[memlog[i].cand], "classify__C")
                    = C_OPTIONS[1] )
    /\ CachedFitReturned =>
         \A rc \in ReducerConfigs : \A f \in 1..n_folds :
            LET Exec(e) == e.kind = "exec" /\ e.key = <<rc[1], rc[2], f>>
                Load(e) == e.kind = "load" /\ e.key = <<rc[1], rc[2], f>>
            IN  /\ CountIn(memlog, Exec) = 1
                /\ CountIn(memlog, Load) = Len(C_OPTIONS) - 1

C1_Witness ==
    /\ CachedFitReturned
    /\ \E i \in DOMAIN memlog : memlog[i].kind = "load"
    /\ \E i \in DOMAIN memlog :
         memlog[i].kind = "exec" /\ memlog[i].key[1] = "SelectKBest(chi2)"

\* the label of the bar group a candidate belongs to
LabelOf(cand) ==
    CASE Reducer(cand) = "PCA(iterated_power=7)" -> "PCA"
      [] Reducer(cand) = "NMF()" -> "NMF"
      [] Reducer(cand) = "SelectKBest(chi2)" -> "KBest(chi2)"

\* the statements of plot_compare_reduction of this kind that have returned
Returned(kind) ==
    {i \in DOMAIN trace : CR_Script[trace[i][1]] = kind /\ trace[i][2] = "ok"}

\* mean_scores = mean_scores.max(axis=0) has returned
MaxReturned == script = CompareReduction /\ Returned("max") # {}

\* C2: once the maximum over axis 0 is taken, mean_scores[i][j] is the
\* maximum over the four C values of the mean test score of the candidates
\* that use reducer i with N_FEATURES_OPTIONS[j] features.
C2_BarsPerReducer ==
    MaxReturned =>
        \A i \in 1..Len(reducer_labels) : \A j \in 1..Len(N_FEATURES_OPTIONS) :
            mean_scores[i][j] =
                MaxOf({mean_test_score[c] : c \in
                    {d \in 1..Len(CR_candidates) :
                        /\ LabelOf(CR_candidates[d]) = reducer_labels[i]
                        /\ NFeatures(CR_candidates[d])
                             = N_FEATURES_OPTIONS[j]}})

\* the grid search of plot_feature_stacker returned
FSFitReturned == script = FeatureStacker /\ best_index_ # 0

\* C3: the feature-stacker grid has 3 * 2 * 3 = 18 candidates and the search
\* performs 54 fits, one for every (candidate, fold) pair and none twice.
C3_CandidatesAndFits ==
    script = FeatureStacker =>
        /\ Len(FS_candidates) = 18
        /\ \A c \in 1..18 : \A f \in 1..3 :
             LET Pair(e) == e.cand = c /\ e.fold = f
             IN  /\ CountIn(fold_scores, Pair) <= 1
                 /\ FSFitReturned => CountIn(fold_scores, Pair) = 1
        /\ FSFitReturned =>
             /\ Len(fold_scores) = 54
             /\ announced = << [folds |-> 3, candidates |-> 18, fits |-> 54] >>

C3_Witness == FSFitReturned /\ status = "done" /\ Len(fold_scores) = 54

\* C4: whenever the caching section was entered and the script
\* has ended, normally or by an exception, cachedir no longer exists, and
\* the cache is not read or written after rmtree.
C4_DeletedOnEveryExit ==
    /\ (status \in {"done", "raised"} /\ cachedir # "none")
          => cachedir = "deleted"
    /\ cachedir = "deleted" => Len(memlog) = rmtree_at

\* the outcome of the last statement attempt
LastOutcome == IF trace = <<>> THEN "ok" ELSE trace[Len(trace)][2]

\* C5 (state part): a raised exception is the last thing that happens: it
\* is the final entry of the trace, the script is stopped at the failing
\* statement with that very exception at its top level, and no statement
\* is attempted twice.
C5_RaiseIsFinal ==
    /\ \A i \in DOMAIN trace :
         /\ trace[i][2] # "ok" =>
              /\ i = Len(trace)
              /\ status = "raised"
              /\ pc = trace[i][1]
              /\ toplevel_error = trace[i][2]
         /\ \A j \in DOMAIN trace : j # i => trace[j][1] # trace[i][1]
    /\ status = "raised" => LastOutcome # "ok"
    /\ LastOutcome = "ok" => toplevel_error = "none"

\* C5: a failure of a library call propagates unchanged to the top level;
\* once it has, nothing of the script runs any more.
C5_FailurePropagates ==
    /\ []C5_RaiseIsFinal
    /\ [][LastOutcome # "ok" => UNCHANGED vars]_vars

C5_Witness ==
    /\ status = "raised"
    /\ gs_phase = "fitting"
    /\ gs_done > 0
    /\ toplevel_error = "ValueError"

\* C6: the printed best estimator is a candidate whose mean test score is
\* maximal and the first such candidate in grid order; in the captured run
\* candidates 11 (n_components=2, k=2, C=1) and 17 (n_components=3, k=2,
\* C=1) tie and the one printed has n_components=2, k=2.
C6_BestIsFirstMaximum ==
    (script = FeatureStacker /\ printed # <<>>) =>
        /\ Len(printed) = 1
        /\ \E b \in 1..Len(FS_candidates) :
             /\ printed[1] = FS_candidates[b]
             /\ \A d \in 1..Len(FS_candidates) :
                  /\ mean_test_score[d] <= mean_test_score[b]
                  /\ d < b => mean_test_score[d] < mean_test_score[b]
        /\ boost.gain = 0 =>
             /\ mean_test_score[11] = mean_test_score[17]
             /\ Param(printed[1], "features__pca__n_components") = 2
             /\ Param(printed[1], "features__univ_select__k") = 2

C6_Witness ==
    /\ script = FeatureStacker
    /\ printed # <<>>
    /\ boost.gain = 0
    /\ fold_scores[31].score = fold_scores[49].score
    /\ mean_test_score[11] = mean_test_score[17]
    /\ \A d \in 1..Len(FS_candidates) :
          mean_test_score[d] <= mean_test_score[17]

\* C9: at most one cross-validation fit is in progress at any time, and in
\* the [CV] log every start line is directly followed by the completion
\* line of the same candidate and fold.
C9_OneFitAtATime ==
    /\ Cardinality(inflight) <= 1
    /\ \A i \in DOMAIN cvlog :
         /\ cvlog[i].kind = "start" =>
              IF i = Len(cvlog)
              THEN inflight # {} \/ status = "raised"
              ELSE /\ cvlog[i + 1].kind = "end"
                   /\ cvlog[i + 1].cand = cvlog[i].cand
                   /\ cvlog[i + 1].fold = cvlog[i].fold
         /\ cvlog[i].kind = "end" =>
              /\ i > 1
              /\ cvlog[i - 1].kind = "start"

C9_Witness ==
    /\ Cardinality(inflight) = 1
    /\ gs_done > 0
    /\ Len(cvlog) > 2
    /\ cvlog[Len(cvlog)].kind = "start"

\* the options of the feature-stacker grid
FS_n_components == FS_param_grid[1][1][2]

FS_k == FS_param_grid[1][2][2]

FS_C == FS_param_grid[1][3][2]

\* C10: the i-th fit of the feature-stacker search is fold ((i-1) mod 3)+1
\* of candidate ((i-1) div 3)+1, and candidate c carries the parameters
\* named (n_components, k, C) with C varying fastest and n_components
\* slowest, every option list in its listed order.
C10_LexicographicOrder ==
    script = FeatureStacker =>
        /\ \A c \in 1..Len(FS_candidates) :
             /\ FS_candidates[c].keys = <<"features__pca__n_components",
                                          "features__univ_select__k",
                                          "svm__C">>
             /\ FS_candidates[c].vals =
                  << FS_n_components[((c - 1) \div 6) + 1],
                     FS_k[(((c - 1) \div 3) % 2) + 1],
                     FS_C[((c - 1) % 3) + 1] >>
        /\ \A i \in DOMAIN fold_scores :
             /\ fold_scores[i].cand = ((i - 1) \div 3) + 1
             /\ fold_scores[i].fold = ((i - 1) % 3) + 1
        /\ \A i \in DOMAIN cvlog :
             /\ cvlog[i].cand = ((i - 1) \div 6) + 1
             /\ cvlog[i].fold = (((i - 1) \div 2) % 3) + 1

C10_Witness ==
    /\ FSFitReturned
    /\ Len(cvlog) = 108
    /\ cvlog[107].cand = 18
    /\ FS_candidates[18].vals = <<3, 2, 100>>

(***************************************************************************)
(* Properties of plot_gpc_isoprobability.                                  *)
(***************************************************************************)
\* the label the observations give to the points where the event holds:
\* G(x) <= 0 holds where g is 0 or less
ClassOfEvent(event) == IF event = "G(x) <= 0" THEN Observation(<<0, 5000>>) ELSE 1

\* the fitted classifier's probability of an event at a point
ProbOfEvent(model, x, event) ==
    LET col == CHOOSE k \in 1..Len(model.classes_) :
                  model.classes_[k] = ClassOfEvent(event)
    IN  PredictProba(model, x)[col]

\* C7: at every grid point the image shows the predicted probability of the
\* event the colorbar label names, G(x) <= 0.
C7_ImageShowsLabelledEvent ==
    (image # <<>> /\ cb_label # "") =>
        \A k \in 1..Len(xx) : image[k] = ProbOfEvent(gp, xx[k], cb_label)

(***************************************************************************)
(* Properties of plot_missing_values.                                      *)
(***************************************************************************)
\* the rows (from 1) the mask marks
MarkedRows == { r \in DOMAIN missing_samples : missing_samples[r] }

\* the columns (from 0) of the cells written in row r (from 1)
WrittenIn(r) == { f \in 0..(MaxFeatures + 1) : <<r - 1, f>> \in written }

\* C8: once the mask has been shuffled, exactly floor(0.75 * n_samples) rows
\* are marked; once X_missing has been built, every marked row has exactly
\* one entry set to 0, at a feature index in [0, n_features), and its other
\* entries are those of X_full; every unmarked row equals the row of X_full.
C8_MissingInThreeQuarters ==
    /\ gr_pc \in {"missing_features", "zero_impute", "mean_impute", "return"} =>
          /\ Len(missing_samples) = n_samples(heap[X_full])
          /\ 4 * Cardinality(MarkedRows) <= 3 * n_samples(heap[X_full])
          /\ 4 * (Cardinality(MarkedRows) + 1) > 3 * n_samples(heap[X_full])
    /\ (gr_pc \in {"mean_impute", "return"} /\ X_missing # 0) =>
          \A r \in 1..n_samples(heap[X_full]) :
              IF r \in MarkedRows
              THEN \E f \in 0..(n_features(heap[X_full]) - 1) :
                      /\ WrittenIn(r) = {f}
                      /\ heap[X_missing][r][f + 1] = 0
                      /\ \A o \in 1..n_features(heap[X_full]) :
                             o # f + 1 => heap[X_missing][r][o] = heap[X_full][r][o]
              ELSE /\ WrittenIn(r) = {}
                   /\ heap[X_missing][r] = heap[X_full][r]

\* the second call has built X_missing for a dataset of four rows, one of
\* them unmarked, whose written cells are not all in one column and one of
\* whose written cells held 0 already
C8_Witness ==
    /\ gr_call = 2
    /\ gr_pc = "mean_impute"
    /\ n_samples(heap[X_full]) = 4
    /\ Cardinality(MarkedRows) = 3
    /\ ~ missing_samples[1]
    /\ \E c1, c2 \in written : c1[2] # c2[2]
    /\ \E c \in written : heap[X_full][c[1] + 1][c[2] + 1] = 0

\* the arrays of the c-th call of get_results: every call puts dataset.data,
\* dataset.target and then the two pairs of copies on the heap
DataOfCall(c) == heap[6 * (c - 1) + 1]
TargetOfCall(c) == heap[6 * (c - 1) + 2]
ZeroImputeXOfCall(c) == heap[6 * (c - 1) + 3]
MeanImputeXOfCall(c) == heap[6 * (c - 1) + 5]

\* C11: every call of get_results returns three pairs, in order the scores
\* of the forest on the full data, of the forest on the data with zeros and
\* of the imputing pipeline; each of the three cross-validations is given
\* all n_samples rows and targets; the bars are drawn in that same order,
\* under the labels Full data, Zero imputation, Mean Imputation.
C11_ThreePairsInLabelOrder ==
    /\ \A c \in DOMAIN results :
          /\ Len(results[c]) = 3
          /\ \A j \in 1..3 :
                LET call == cv_calls[results[c][j].mean_of]
                IN  /\ results[c][j].std_of = results[c][j].mean_of
                    /\ Len(call.X) = n_samples(DataOfCall(c))
                    /\ call.y = TargetOfCall(c)
                    /\ call.X = CASE j = 1 -> DataOfCall(c)
                                  [] j = 2 -> ZeroImputeXOfCall(c)
                                  [] j = 3 -> MeanImputeXOfCall(c)
                    /\ (j = 3) <=> (call.estimator # "RandomForestRegressor")
          /\ results[c][1].mean_of < results[c][2].mean_of
          /\ results[c][2].mean_of < results[c][3].mean_of
    /\ axes # <<>> =>
          /\ axes[1].yticklabels = <<"Full data", "Zero imputation", "Mean Imputation">>
          /\ \A a \in 1..2 : \A j \in 1..3 :
                /\ axes[a].yticks[j] = axes[a].bars[j].y
                /\ axes[a].bars[j].width.neg_mean_of = results[a][j].mean_of
                /\ axes[a].bars[j].xerr.std_of = results[a][j].std_of

\* both calls returned and the charts are drawn; in the second call one row
\* of four was left unmarked and the zero-imputed matrix differs from the data
C11_Witness ==
    /\ gr_pc = "done"
    /\ Len(results) = 2
    /\ Len(axes) = 2
    /\ Len(cv_calls) = 6
    /\ n_samples(DataOfCall(2)) = 4
    /\ ZeroImputeXOfCall(2) # DataOfCall(2)

(***************************************************************************)
(* Termination of the example scripts.                                     *)
(***************************************************************************)
\* the script has run its last statement
Completed ==
    CASE script = GpcIsoprobability -> gpc_pc = "done"
      [] script = MissingValues -> gr_pc = "done"
      [] OTHER -> /\ status = "done"
                  /\ trace[Len(trace)] = <<Len(Script(script)), "ok">>

\* the successful executions of grid.fit so far
GridFits == {i \in DOMAIN trace : Script(script)[trace[i][1]] = "grid.fit"}

\* what a completed script has done: its loops ran over 3 reducer labels,
\* 3 bars, 2 classifiers, 5, 5, 6 and 4 cluster colours, and
\* plot_compare_reduction fitted two grid searches
CompletedRun ==
    CASE script = CompareReduction ->
             /\ iterated = << <<16, 3>> >>
             /\ Cardinality(GridFits) = 2
      [] script = Optics ->
             iterated = << <<24, 5>>, <<31, 5>>, <<35, 6>>, <<39, 4>> >>
      [] script = GpcIris -> iterated = << <<15, 2>> >>
      [] script = MissingValues ->
             /\ Len(axes) = 2
             /\ \A a \in 1..2 : Len(axes[a].bars) = 3
      [] OTHER -> iterated = <<>>

\* C12: with every library call returning, every script completes, and it
\* has then run each of its loops over the whole of its finite sequence and
\* no further; plot_compare_reduction has then made two grid-search fits.
C12_RunsToCompletion ==
    /\ <>[]Completed
    /\ [](Completed => CompletedRun)
    /\ [](loop_i <= 6)

\* plot_compare_reduction has completed after its bar loop and both fits
C12_Witness ==
    /\ script = CompareReduction
    /\ status = "done"
    /\ Len(iterated) = 1
    /\ cachedir = "deleted"

(***************************************************************************)
(* The cache of the cached grid search.                                    *)
(***************************************************************************)
\* C13: no cache key is executed twice, and every load of a key comes
\* after the execution that stored the key.
C13_LoadAfterExecution ==
    \A i \in DOMAIN memlog :
        IF memlog[i].kind = "exec"
        THEN \A j \in DOMAIN memlog :
                (j # i /\ memlog[j].kind = "exec") => memlog[j].key # memlog[i].key
        ELSE /\ memlog[i].kind = "load"
             /\ \E j \in 1..(i - 1) :
                   memlog[j].kind = "exec" /\ memlog[j].key = memlog[i].key

\* the cached search has returned: keys were executed, and loaded later
C13_Witness ==
    /\ CachedFitReturned
    /\ \E i, j \in DOMAIN memlog :
          /\ i < j
          /\ memlog[i].kind = "exec"
          /\ memlog[j].kind = "load"
          /\ memlog[j].key = memlog[i].key
          /\ memlog[j].cand # memlog[i].cand

\* the cross-validation calls of the cached search: all but the refit
CVCalls == {i \in DOMAIN memlog : memlog[i].key[3] # FullData}

\* C14: the cached grid search makes 108 cross-validation transformer
\* calls, one for each of 36 candidates and 3 folds; 27 of them are
\* executed, 81 are cache loads, 54 for PCA and NMF and 27 for SelectKBest.
C14_ExecutedAndLoaded ==
    CachedFitReturned =>
        LET Executed == {i \in CVCalls : memlog[i].kind = "exec"}
            Loaded == {i \in CVCalls : memlog[i].kind = "load"}
            KBest == {i \in CVCalls :
                         Param(CR_candidates[memlog[i].cand], "reduce_dim")
                             = "SelectKBest(chi2)"}
        IN  /\ Cardinality(CVCalls) = 108
            /\ Cardinality(CVCalls) = Len(CR_candidates) * 3
            /\ Len(CR_candidates) = 36
            /\ Cardinality(Executed) = 27
            /\ Cardinality(Loaded) = 81
            /\ Cardinality(Loaded \ KBest) = 54
            /\ Cardinality(Loaded \cap KBest) = 27
            /\ Cardinality(Executed \cap KBest) = 9
            /\ \A c \in 1..36 : \A f \in 1..3 :
                  Cardinality({i \in CVCalls :
                      memlog[i].cand = c /\ memlog[i].key[3] = f}) = 1

\* the cached search has returned and the cache was deleted
C14_Witness ==
    /\ CachedFitReturned
    /\ Len(memlog) = 109
    /\ memlog[108].kind = "load"
    /\ memlog[108].key[1] = "SelectKBest(chi2)"
    /\ cachedir = "deleted"

\* C15: the refit of the best pipeline is the last call of the cached
\* search, after all 108 cross-validation calls; its transformer is
\* executed, not loaded, although the same reducer configuration was
\* stored for every fold, because its training data is all the data.
C15_RefitExecuted ==
    CachedFitReturned =>
        /\ Len(memlog) = 109
        /\ \A i \in 1..108 : memlog[i].key[3] \in 1..3
        /\ memlog[109].kind = "exec"
        /\ memlog[109].cand = best_index_
        /\ memlog[109].key[3] \notin 1..3
        /\ \A f \in 1..3 : \E i \in 1..108 :
              /\ memlog[i].kind = "exec"
              /\ memlog[i].key[1] = memlog[109].key[1]
              /\ memlog[i].key[2] = memlog[109].key[2]
              /\ memlog[i].key[3] = f

\* as in the captured run, the refitted pipeline is NMF with 8 components
C15_Witness ==
    /\ CachedFitReturned
    /\ memlog[109].kind = "exec"
    /\ memlog[109].key[1] = "NMF()"
    /\ memlog[109].key[2] = 8

\* C16: the transformer fitted for a candidate is the candidate's
\* 'reduce_dim' estimator carrying the candidate's n_components (first
\* sub-grid) or k (second sub-grid), never the pipeline's own PCA().
C16_ReducerReplacedFirst ==
    \A i \in DOMAIN memlog :
        LET cand == CR_candidates[memlog[i].cand]
        IN  /\ memlog[i].key[1] = Param(cand, "reduce_dim")
            /\ memlog[i].key[1] # "PCA()"
            /\ memlog[i].key[1] \in {"PCA(iterated_power=7)", "NMF()"} =>
                  memlog[i].key[2] = Param(cand, "reduce_dim__n_components")
            /\ memlog[i].key[1] = "SelectKBest(chi2)" =>
                  memlog[i].key[2] = Param(cand, "reduce_dim__k")
            /\ memlog[i].key[1] \in
                  {"PCA(iterated_power=7)", "NMF()", "SelectKBest(chi2)"}

\* transformers of both sub-grids were fitted, with 2 and with 8 features
C16_Witness ==
    /\ \E i \in DOMAIN memlog :
          memlog[i].key[1] = "PCA(iterated_power=7)" /\ memlog[i].key[2] = 2
    /\ \E i \in DOMAIN memlog :
          memlog[i].key[1] = "SelectKBest(chi2)" /\ memlog[i].key[2] = 8

(***************************************************************************)
(* The shape of mean_scores in plot_compare_reduction.                     *)
(***************************************************************************)
\* the statement mean_scores = mean_scores.reshape(...) is about to run
AtReshape ==
    /\ script = CompareReduction
    /\ status = "running"
    /\ CR_Script[pc] = "reshape"

\* the bar loop of plot_compare_reduction is running
AtBarLoop ==
    /\ script = CompareReduction
    /\ status = "running"
    /\ CR_Script[pc] = "for"

\* C17: param_grid has 4*2*3 + 4*1*3 = 36 candidates and mean_test_score
\* 36 entries, which np.array binds to mean_scores; 36 divides by 4 * 3, so
\* the reshape does not fail (no ValueError is raised at it other than one
\* the library raises for another reason) and binds an array of 4 x 3 x 3,
\* its middle axis being 3, the number of reducer labels; the maximum over
\* axis 0 binds 3 rows of 3 scores, and the bar loop zips 3 labels with
\* these 3 rows and runs 3 times.
C17_ThirtySixCandidates ==
    script = CompareReduction =>
        /\ Len(CR_candidates) = 4 * 2 * 3 + 4 * 1 * 3
        /\ mean_test_score # <<>> => Len(mean_test_score) = 36
        /\ (Returned("np.array") = {}) = (mean_scores = <<>>)
        /\ (Returned("np.array") # {} /\ Returned("reshape") = {}) =>
              /\ mean_scores = mean_test_score
              /\ Len(mean_scores) = 36
        /\ AtReshape =>
              /\ ReshapeFits(Len(mean_scores), Len(C_OPTIONS),
                             Len(N_FEATURES_OPTIONS))
              /\ MiddleAxis(mean_scores, Len(C_OPTIONS), Len(N_FEATURES_OPTIONS))
                    = Len(reducer_labels)
        /\ (Returned("reshape") # {} /\ Returned("max") = {}) =>
              /\ Len(mean_scores) = Len(C_OPTIONS)
              /\ \A a \in DOMAIN mean_scores :
                    /\ Len(mean_scores[a]) = Len(reducer_labels)
                    /\ \A b \in DOMAIN mean_scores[a] :
                          Len(mean_scores[a][b]) = Len(N_FEATURES_OPTIONS)
        /\ MaxReturned =>
              /\ Len(mean_scores) = 3
              /\ \A i \in 1..3 : Len(mean_scores[i]) = 3
        /\ AtBarLoop =>
              /\ Len(reducer_labels) = 3
              /\ Len(mean_scores) = 3
              /\ LoopOver(script, pc) = 3
        /\ loop_i <= 3
        /\ iterated # <<>> => iterated = << <<16, 3>> >>

\* the bar loop has drawn the bars of the last reducer label
C17_Witness ==
    /\ AtBarLoop
    /\ loop_i = 3
    /\ Len(mean_scores) = 3
    /\ \E i, j \in 1..3 : mean_scores[i][j] > 0

(***************************************************************************)
(* The arrays of get_results.                                              *)
(***************************************************************************)
\* get_results is between its first cross_val_score and its return
InGetResults ==
    gr_pc \in {"missing_samples", "shuffle", "missing_features",
               "zero_impute", "mean_impute", "return"}

\* C18: the zero-imputation and the mean-imputation experiment of a call
\* are given the same X_missing and the same targets; the arrays of the
\* dataset hold at every point of the call what the loader returned and
\* what the first experiment was given, the copies being arrays of their own.
C18_SameMissingDataUntouched ==
    /\ \A c \in DOMAIN results :
          /\ cv_calls[3 * c - 1].X = cv_calls[3 * c].X
          /\ cv_calls[3 * c - 1].y = cv_calls[3 * c].y
    /\ gr_pc = "return" =>
          /\ cv_calls[Len(cv_calls) - 1].X = cv_calls[Len(cv_calls)].X
          /\ cv_calls[Len(cv_calls)].X = heap[X_missing]
    /\ InGetResults =>
          /\ heap[X_full] = cv_calls[3 * (gr_call - 1) + 1].X
          /\ heap[y_full] = cv_calls[3 * (gr_call - 1) + 1].y
          /\ \E d \in Datasets : heap[X_full] = d.data /\ heap[y_full] = d.target
          /\ X_missing # X_full
          /\ y_missing # y_full

\* both experiments of the second call have run on a matrix that differs
\* from the data
C18_Witness ==
    /\ gr_call = 2
    /\ gr_pc = "return"
    /\ Cardinality(written) = 3
    /\ heap[X_missing] # heap[X_full]

\* C19: the entries the imputing pipeline takes as missing are exactly the
\* entries get_results set to 0, one per marked row; no entry the dataset
\* came with is taken as missing.
C19_MissingAreTheWritten ==
    gr_pc = "return" =>
        /\ cv_calls[Len(cv_calls)].treated_missing = written
        /\ Cardinality(cv_calls[Len(cv_calls)].treated_missing)
              = Cardinality(MarkedRows)

(***************************************************************************)
(* The module-level generator of plot_missing_values.                      *)
(***************************************************************************)
\* the draws one call makes for n rows and nf columns: n - 1 for the
\* shuffle, one for every marked row unless there is but one column to
\* draw; every draw takes one word at least
DrawsOfCall(n, nf) == (n - 1) + (IF nf > 1 THEN (3 * n) \div 4 ELSE 0)

\* the mask, the features and the state a generator in state s gives a
\* dataset of n rows and nf columns
CallFrom(s, n, nf) ==
    LET sh == Shuffle(Hstack(Zeros(n - ((3 * n) \div 4)), Ones((3 * n) \div 4)), s)
        ft == RandIntArray(sh.rng, 0, nf, (3 * n) \div 4)
    IN  [pattern |-> <<sh.value, ft.value>>, rng |-> ft.rng]

PatternFrom(s, n, nf) == CallFrom(s, n, nf).pattern

\* C20: the second call starts with the generator in the state the draws
\* of the first call left it in, which is past the state the first call
\* started with by a word for every draw at least; outside the draws of
\* get_results the state does not change; the pattern of a call is the one
\* the generator gives from the state the call found it in.
C20_SharedGenerator ==
    /\ Len(rng_at_entry) = 2 =>
          LET n1 == n_samples(DataOfCall(1))
              nf1 == n_features(DataOfCall(1))
          IN  /\ rng_at_entry[2] = CallFrom(rng_at_entry[1], n1, nf1).rng
              /\ rng_at_entry[2] >= rng_at_entry[1] + DrawsOfCall(n1, nf1)
    /\ gr_pc \in {"full_scores", "missing_samples", "shuffle"} =>
          rng = rng_at_entry[Len(rng_at_entry)]
    /\ gr_pc \in {"zero_impute", "mean_impute", "return"} =>
          LET Xd == heap[X_full]
              s0 == rng_at_entry[Len(rng_at_entry)]
          IN  /\ <<missing_samples, missing_features>>
                    = PatternFrom(s0, n_samples(Xd), n_features(Xd))
              /\ rng = CallFrom(s0, n_samples(Xd), n_features(Xd)).rng

\* the second call has marked the rows of its dataset differently from what
\* the generator would have done in the state the script created it in
C20_Witness ==
    /\ gr_call = 2
    /\ gr_pc = "return"
    /\ n_samples(DataOfCall(1)) > 1
    /\ rng_at_entry[2] # rng_at_entry[1]
    /\ <<missing_samples, missing_features>>
          # PatternFrom(rng_at_entry[1], n_samples(heap[X_full]),
                        n_features(heap[X_full]))

(***************************************************************************)
(* The bars of plot_missing_values and the limits of the first axis.       *)
(***************************************************************************)
\* the length of bar j of chart a, as the numerator over n_splits
BarLength(a, j) == MseTimesSplits(axes[a].bars[j].width)

\* the left edge of bar j of chart a, in the unit of BarLength
BarLeft(a, j) == axes[a].bars[j].left * n_splits

\* the square of the half length of the error bar of bar j of chart a, in
\* the unit of BarLength
XerrSquared(a, j) == StdSquaredTimesSplitsSquared(axes[a].bars[j].xerr.std_of)

\* x is between the limits of chart a; x in the unit of BarLength
InsideXlim(a, x) ==
    axes[a].xlim.left_x10 <= 10 * x /\ 10 * x <= axes[a].xlim.right_x10

\* both ends of the error bar of bar j of chart a, BarLength minus and plus
\* the root of XerrSquared, are between the limits of chart a
XerrInsideXlim(a, j) ==
    LET room_left == 10 * BarLength(a, j) - axes[a].xlim.left_x10
        room_right == axes[a].xlim.right_x10 - 10 * BarLength(a, j)
    IN  /\ room_left >= 0
        /\ room_right >= 0
        /\ 100 * XerrSquared(a, j) <= room_left * room_left
        /\ 100 * XerrSquared(a, j) <= room_right * room_right

\* every score is a negated squared error, every mean returned by
\* get_results is not positive and every plotted value is not negative
MsesNotNegative ==
    /\ \A c \in DOMAIN cv_calls : \A f \in 1..n_splits :
          cv_calls[c].scores[f] <= 0
    /\ \A c \in DOMAIN results : \A j \in DOMAIN results[c] :
          MeanTimesSplits(results[c][j].mean_of) <= 0
    /\ axes # <<>> => \A a \in 1..2 : \A j \in 1..3 : BarLength(a, j) >= 0

\* C21, as stated: the plotted values are not negative, and every bar of the
\* first chart, from its left edge to its end and with its error bar, lies
\* between 0.9 times the smallest and 1.1 times the greatest plotted value.
C21_BarsInsideLimits ==
    /\ MsesNotNegative
    /\ axes # <<>> =>
          \A j \in 1..3 :
              /\ InsideXlim(1, BarLeft(1, j))
              /\ InsideXlim(1, BarLength(1, j))
              /\ XerrInsideXlim(1, j)

\* C21, amended: the plotted values are not negative and the end of every
\* bar of the first chart is between 0.9 times the smallest and 1.1 times
\* the greatest plotted value; every bar starts at 0, which is between the
\* limits only when the smallest plotted value is 0: otherwise the left part
\* of every bar is cut off by the left limit.
C21_BarEndsWithinLimits ==
    /\ MsesNotNegative
    /\ axes # <<>> =>
          \A j \in 1..3 :
              /\ InsideXlim(1, BarLength(1, j))
              /\ BarLeft(1, j) = 0
              /\ InsideXlim(1, BarLeft(1, j))
                    = (\E i \in 1..3 : BarLength(1, i) = 0)

\* the charts are drawn, the forests of the run erred, the bars of the
\* first chart have different lengths, the left limit is right of their
\* left edges and an error bar reaches beyond a limit
C21_Witness ==
    /\ gr_pc = "done"
    /\ residual # 0
    /\ axes[1].xlim.left_x10 > 0
    /\ \E i, j \in 1..3 : BarLength(1, i) < BarLength(1, j)
    /\ \E j \in 1..3 : axes[1].xlim.left_x10 < 10 * BarLength(1, j)
    /\ \E j \in 1..3 : ~InsideXlim(1, BarLeft(1, j))
    /\ \E j \in 1..3 : XerrSquared(1, j) > 0 /\ ~XerrInsideXlim(1, j)

(***************************************************************************)
(* The training points of plot_gpc_isoprobability.                         *)
(***************************************************************************)
\* C22: once both plot calls have run, the red points are the design points
\* with g(x) <= 0, whose label is 0, the blue points are those with
\* g(x) > 0, whose label is 1; no point is in both sets, every one of the
\* 8 design points is in one of them, and no two design points coincide,
\* so that every point is drawn once.
C22_RedAndBluePartition ==
    gpc_pc \in {"show", "done"} =>
        /\ red = {i \in 1..Len(X) : g(X[i]) <= 0}
        /\ blue = {i \in 1..Len(X) : g(X[i]) > 0}
        /\ \A i \in red : y[i] = 0
        /\ \A i \in blue : y[i] = 1
        /\ red \cap blue = {}
        /\ red \cup blue = 1..8
        /\ Cardinality(red) + Cardinality(blue) = Len(X)
        /\ \A i, j \in 1..Len(X) : X[i] = X[j] => i = j

\* both plot calls have run and each has drawn some of the points
C22_Witness ==
    /\ gpc_pc = "done"
    /\ red # {}
    /\ blue # {}
    /\ Len(X) = 8

(***************************************************************************)
(* The reachability plot and the OPTICS panel of plot_optics.              *)
(***************************************************************************)
\* how often the marker plots of ax1 (not the two cut lines) put a point at
\* abscissa x with ordinate r
MarkersAt(x, r) ==
    SumSeq([c \in 1..Len(ax1) |->
               IF ax1[c].fmt \in {"k-", "k-."}
               THEN 0
               ELSE Cardinality({p \in 1..Len(ax1[c].xs) :
                                    ax1[c].xs[p] = x /\ ax1[c].ys[p] = r})])

\* how often the marker plots of ax1 put a point at abscissa x
MarkersAbove(x) ==
    SumSeq([c \in 1..Len(ax1) |->
               IF ax1[c].fmt \in {"k-", "k-."}
               THEN 0
               ELSE Cardinality({p \in 1..Len(ax1[c].xs) : ax1[c].xs[p] = x})])

\* how often the plots of ax2 draw sample s
ScatterDraws(s) ==
    SumSeq([c \in 1..Len(ax2) |->
               Cardinality({p \in 1..Len(ax2[c].rows) : ax2[c].rows[p] = s})])

\* C23: position i of reachability and of labels holds the values of the
\* sample clust.ordering_ puts at i; when the marker plots of the
\* reachability panel are done, a position whose label is one of -1, 0, 1,
\* 2, 3, 4 has exactly one marker, at its reachability, and a position
\* whose label is 5 or more has none; when the OPTICS panel is done, a
\* sample whose label is one of -1..4 is drawn exactly once there and a
\* sample whose label is 5 or more is not drawn.
C23_SameOrderingDrawnOnce ==
    /\ op_pc \in {"loop_ax1", "noise_ax1", "lines_ax1", "loop_ax2", "noise_ax2", "done"} =>
          /\ Len(reachability) = Len(clust.ordering_)
          /\ Len(labels) = Len(clust.ordering_)
          /\ \A i \in 1..Len(clust.ordering_) :
                /\ reachability[i] = clust.reachability_[clust.ordering_[i]]
                /\ labels[i] = clust.labels_[clust.ordering_[i]]
    /\ op_pc \in {"lines_ax1", "loop_ax2", "noise_ax2", "done"} =>
          \A i \in 1..Len(labels) :
              IF labels[i] \in {-1, 0, 1, 2, 3, 4}
              THEN /\ MarkersAbove(space[i]) = 1
                   /\ MarkersAt(space[i], reachability[i]) = 1
              ELSE MarkersAbove(space[i]) = 0
    /\ op_pc = "done" =>
          \A s \in 1..Len(clust.labels_) :
              ScatterDraws(s) = (IF clust.labels_[s] \in {-1, 0, 1, 2, 3, 4}
                                 THEN 1 ELSE 0)

\* both panels are drawn for two samples that the ordering exchanges: one
\* has label 4, the other label 5 and another reachability
C23_Witness ==
    /\ op_pc = "done"
    /\ clust.ordering_ = <<2, 1>>
    /\ clust.labels_ = <<5, 4>>
    /\ clust.reachability_[1] # clust.reachability_[2]
    /\ labels = <<4, 5>>
    /\ MarkersAbove(0) = 1
    /\ MarkersAbove(1) = 0
    /\ ScatterDraws(2) = 1
    /\ ScatterDraws(1) = 0

====
